---- MODULE Spec2Model ----
(***************************************************************************)
(* Transaction builders of sonabuild/protocols: the Solend deposit and     *)
(* withdraw builders, the wallet transfer builder, the Jupiter swap        *)
(* pass-through, the enclave dispatcher, the transaction validators and    *)
(* the amount codec.  Every call is one step: the inputs of the call are   *)
(* chosen, the function runs to its return or its throw, and the state     *)
(* holds the call and what it gave back.                                   *)
(***************************************************************************)
EXTENDS Integers, Naturals, Sequences, FiniteSets, TLC

VARIABLES call, result

vars == <<call, result>>

(***************************************************************************)
(* Unbounded naturals.  JavaScript's BigInt and the 53-bit mantissa of a   *)
(* Number do not fit the model checker's integers, so a natural is kept as *)
(* its little-endian base-256 digits with no leading zero digit (zero is   *)
(* the empty sequence).  These are also the bytes DataView writes.         *)
(***************************************************************************)
\* a without its leading zero digits
BNNorm(a) ==
  LET n == CHOOSE k \in 0..Len(a) :
             /\ (k = 0 \/ a[k] # 0)
             /\ \A j \in (k + 1)..Len(a) : a[j] = 0
  IN  SubSeq(a, 1, n)

RECURSIVE BNFromNat(_)
BNFromNat(n) ==
  IF n = 0 THEN <<>> ELSE <<n % 256>> \o BNFromNat(n \div 256)

BNDigit(a, i) == IF i <= Len(a) THEN a[i] ELSE 0

\* -1, 0 or 1 as a < b, a = b, a > b: decided by the highest digit that differs
BNCmp(a, b) ==
  LET n    == IF Len(a) > Len(b) THEN Len(a) ELSE Len(b)
      diff == {i \in 1..n : BNDigit(a, i) # BNDigit(b, i)}
  IN  IF diff = {} THEN 0
      ELSE LET top == CHOOSE i \in diff : \A j \in diff : j <= i
           IN  IF BNDigit(a, top) > BNDigit(b, top) THEN 1 ELSE -1

\* a + b: a digit receives a carry when a lower digit pair overflows and
\* every pair in between is full
BNAdd(a, b) ==
  LET n        == IF Len(a) > Len(b) THEN Len(a) ELSE Len(b)
      sum(i)   == BNDigit(a, i) + BNDigit(b, i)
      carry(i) == IF \E j \in 1..(i - 1) :
                       /\ sum(j) >= 256
                       /\ \A k \in (j + 1)..(i - 1) : sum(k) = 255
                  THEN 1 ELSE 0
  IN  BNNorm(<<>> \o [i \in 1..(n + 1) |-> (sum(i) + carry(i)) % 256])

\* a - b for a >= b: a digit lends when a lower digit pair falls short and
\* every pair in between is level
BNSub(a, b) ==
  LET borrow(i) == IF \E j \in 1..(i - 1) :
                        /\ BNDigit(a, j) < BNDigit(b, j)
                        /\ \A k \in (j + 1)..(i - 1) : BNDigit(a, k) = BNDigit(b, k)
                   THEN 1 ELSE 0
  IN  BNNorm(<<>> \o [i \in 1..Len(a) |->
                (256 + a[i] - BNDigit(b, i) - borrow(i)) % 256])

\* A running value of a recursion is evaluated at its own step, not at the
\* end of the recursion through every step before it.
Evaluated(v) == v = v

\* a * k for a machine-size k < 2^22
BNMulSmall(a, k) ==
  LET RECURSIVE From(_, _)
      From(i, carry) ==
        IF i > Len(a) THEN BNFromNat(carry)
        ELSE LET s == a[i] * k + carry
             IN  <<s % 256>> \o From(i + 1, s \div 256)
  IN  BNNorm(From(1, 0))

BNZeros(n) == [i \in 1..n |-> 0]

BNMul(a, b) ==
  LET RECURSIVE From(_)
      From(i) ==
        IF i > Len(b) THEN <<>>
        ELSE BNAdd(BNNorm(BNZeros(i - 1) \o BNMulSmall(a, b[i])), From(i + 1))
  IN  IF a = <<>> \/ b = <<>> THEN <<>> ELSE From(1)

Pow2(k) == 2 ^ k

\* a * 2^k: whole bytes of zeros below, and each byte takes the high bits of
\* the byte under it
BNShl(a, k) ==
  LET bits == k % 8
      up(i) == ((BNDigit(a, i) * Pow2(bits)) % 256)
                 + (IF i > 1 THEN a[i - 1] \div Pow2(8 - bits) ELSE 0)
  IN  IF a = <<>> THEN <<>>
      ELSE BNNorm(BNZeros(k \div 8) \o [i \in 1..(Len(a) + 1) |-> up(i)])

\* floor(a / 2^k): whole bytes dropped, and each byte takes the low bits of
\* the byte above it
BNShr(a, k) ==
  LET whole == k \div 8
      bits  == k % 8
      down(i) == (a[i] \div Pow2(bits))
                   + ((BNDigit(a, i + 1) % Pow2(bits)) * Pow2(8 - bits))
  IN  IF whole >= Len(a) THEN <<>>
      ELSE BNNorm(<<>> \o [i \in 1..(Len(a) - whole) |-> down(i + whole)])

\* a mod 2^k
BNLowBits(a, k) == BNSub(a, BNShl(BNShr(a, k), k))

\* number of binary digits of a (0 for zero)
BNBitLen(a) ==
  IF a = <<>> THEN 0
  ELSE 8 * (Len(a) - 1) + (CHOOSE n \in 1..8 : Pow2(n - 1) <= a[Len(a)] /\ a[Len(a)] < Pow2(n))

BNPow2(k) == BNShl(<<1>>, k)

\* 10^d for d <= 18
BNPow10(d) ==
  IF d <= 9 THEN BNFromNat(10 ^ d)
  ELSE BNMul(BNFromNat(10 ^ 9), BNFromNat(10 ^ (d - 9)))

\* the natural written in decimal, in groups of four digits, most significant
\* group first: 9007199254740991 is <<9007, 1992, 5474, 0991>>
BNFromDecimal(cs) ==
  LET RECURSIVE Chunks(_, _)
      Chunks(rest, acc) ==
        IF rest = <<>> THEN acc
        ELSE LET next == BNAdd(BNMulSmall(acc, 10000), BNFromNat(rest[1]))
             IN  CASE Evaluated(next) -> Chunks(Tail(rest), next)
  IN  Chunks(cs, <<>>)

(***************************************************************************)
(* JavaScript values.  A finite Number is sign, mantissa and binary        *)
(* exponent (value = m * 2^e, m < 2^53); NaN, the infinities, undefined    *)
(* and BigInt are kinds of their own.                                      *)
(***************************************************************************)
Undefined == [t |-> "undefined"]
JSNaN == [t |-> "nan"]
JSInfinity(neg) == [t |-> "inf", neg |-> neg]
JSNumber(neg, m, e) == [t |-> "number", neg |-> neg, m |-> m, e |-> e]
JSBigInt(neg, m) == [t |-> "bigint", neg |-> neg, m |-> m]

\* typeof v === 'number'
IsTypeofNumber(v) == v.t \in {"number", "nan", "inf"}

\* Number.isInteger for a finite Number: no bit below the binary point is set
NumberIsInteger(v) ==
  v.t = "number" /\ (v.e >= 0 \/ BNLowBits(v.m, -v.e) = <<>>)

\* the magnitude of an integer-valued Number
NumberMagnitude(v) == IF v.e >= 0 THEN BNShl(v.m, v.e) ELSE BNShr(v.m, -v.e)

\* BigInt(v): an integer [ok, neg, mag], or the RangeError / TypeError it throws
ToBigInt(v) ==
  IF v.t = "bigint" THEN [ok |-> TRUE, neg |-> v.neg /\ v.m # <<>>, mag |-> v.m]
  ELSE IF NumberIsInteger(v)
  THEN [ok |-> TRUE, neg |-> v.neg /\ v.m # <<>>, mag |-> NumberMagnitude(v)]
  ELSE [ok |-> FALSE]

\* the 8 little-endian bytes DataView.setBigUint64 stores: the value mod 2^64
SetBigUint64(int) ==
  LET low == BNLowBits(int.mag, 64)
      v   == IF int.neg /\ low # <<>> THEN BNSub(BNPow2(64), low) ELSE low
  IN  v \o BNZeros(8 - Len(v))

\* DataView.setUint32(_, n, true) for a machine-size n
SetUint32(n) == LET v == BNFromNat(n) IN v \o BNZeros(4 - Len(v))

\* the unsigned integer a little-endian byte sequence holds
ReadUintLE(bytes) == BNNorm(bytes)

(***************************************************************************)
(* Addresses.  An address is a name; address() of @solana/addresses        *)
(* accepts the well-formed ones and throws on anything else.               *)
(***************************************************************************)
BadAddress == "not-a-base58-address"

SOLEND_PROGRAM_ID == "So1endDq2YkqhipRh3WViPa8hdiSpxWy6z3Z6tMCpAo"
MAIN_POOL_MARKET == "4UpD2fh7xH3VP9QQaXtsS1YY3bxzWhtfpks7FatyKvdY"
LENDING_MARKET_AUTHORITY == "DdZR6zRFiUt4S5mg7AV1uKB2z1f1WzcNYCaTEEWPAuby"
USDC_RESERVE == "BgxfHJDzm44T7XG68MYKx7YisTjZu73tVovyZSjJMpmw"
USDC_LIQUIDITY_SUPPLY == "8SheGtsopRUDzdiD6v6BR9a6bqZ9QwywYQY99Fp5meNf"
CUSDC_MINT == "993dVFL2uXWYeoXuEBFXR4BijeXdTv4s6BzsCjJZuwqk"
CUSDC_SUPPLY == "UtRy8gcEu9fCkDuUrU8EmC7Uc6FZy5NCwttzG7i6nkw"
TOKEN_PROGRAM_ID == "TokenkegQfeZyiNwAJbNbGKPFXCWuBvf9Ss623VQ5DA"
SYSTEM_PROGRAM_ID == "11111111111111111111111111111111"
MEMO_PROGRAM_ID == "MemoSq4gqABAXKb96qnH8TysNcWxMyWCqXgDLGmfcHr"
SOLEND_ACCOUNT_1 == "Gnt27xtC473ZT2Mw5u8wZ68Z3gULkSTb5DuxJy7eJotD"
SOLEND_ACCOUNT_2 == "CZx29wKMUxaJDq6aLVQTdViPL754tTR64NAgQBUGxxHb"
USDC_MINT == "EPjFWdd5AufqSSqeM2qN1xzybapC8G4wEGGkZwyTDt1v"
USDT_MINT == "Es9vMFrzaCERmJfrF4H2FYD4KCoNkY11McCe8BenwNYB"
BONK_MINT == "DezXAZ8z7PnrnRJjz3wXBoRgixCa6xjnB7YaB1pPB263"

INSTRUCTION_DEPOSIT_RESERVE_LIQUIDITY_AND_OBLIGATION_COLLATERAL == 14
INSTRUCTION_WITHDRAW_OBLIGATION_COLLATERAL_AND_REDEEM_RESERVE_COLLATERAL == 15

\* every well-formed address of the model, in base58 collation order
AddressOrder ==
  << SYSTEM_PROGRAM_ID, MAIN_POOL_MARKET, USDC_LIQUIDITY_SUPPLY, CUSDC_MINT,
     "AtaRecipientRBonk", "AtaRecipientRCusdc", "AtaRecipientRUsdc",
     "AtaRecipientRUsdt", "AtaWalletABonk", "AtaWalletACusdc", "AtaWalletAUsdc",
     "AtaWalletAUsdt", "AtaWalletBBonk", "AtaWalletBCusdc", "AtaWalletBUsdc",
     "AtaWalletBUsdt",
     USDC_RESERVE, SOLEND_ACCOUNT_2, LENDING_MARKET_AUTHORITY, BONK_MINT,
     USDC_MINT, USDT_MINT, SOLEND_ACCOUNT_1, MEMO_PROGRAM_ID,
     "ObligationAccount", "ObligationWalletA", "ObligationWalletB", "RecipientR",
     "RecipientTokenAccount", "ReserveSeedWalletA", "ReserveSeedWalletB",
     "SenderTokenAccount", SOLEND_PROGRAM_ID, TOKEN_PROGRAM_ID,
     "UserCusdcAta", "UserUsdcAta", CUSDC_SUPPLY, "WalletA", "WalletB" >>

\* address(x) of @solana/addresses throws unless x is a well-formed address
IsAddress(a) == \E i \in 1..Len(AddressOrder) : AddressOrder[i] = a

AddressRank(a) == CHOOSE i \in 1..Len(AddressOrder) : AddressOrder[i] = a

(***************************************************************************)
(* Transaction messages (@solana/transaction-messages) and their wire      *)
(* form (@solana/transactions).                                            *)
(***************************************************************************)
Account(a, role) == [address |-> a, role |-> role]

RoleIsSigner(role) == role \in {"READONLY_SIGNER", "WRITABLE_SIGNER"}
RoleIsWritable(role) == role \in {"WRITABLE", "WRITABLE_SIGNER"}

\* pipe(createTransactionMessage, setFeePayer, setLifetimeUsingBlockhash)
CreateTransactionMessage(feePayer, lifetime) ==
  [version |-> 0, feePayer |-> feePayer, lifetime |-> lifetime,
   instructions |-> <<>>]

\* a faulty append: the new instruction goes in front of the ones before it
PrependTransactionMessageInstruction(instruction, tx) ==
  [tx EXCEPT !.instructions = <<instruction>> \o @]

AppendTransactionMessageInstruction(instruction, tx) ==
  [tx EXCEPT !.instructions = Append(@, instruction)]

\* instruction data is raw bytes, or the UTF-8 encoding of a text
DataLen(data) ==
  IF data.kind = "bytes" THEN Len(data.bytes)
  ELSE data.text.units * data.text.width

RangeOf(s) == {s[i] : i \in DOMAIN s}

\* every address a message names, as its account or its program
MessageAddresses(tx) ==
  {tx.feePayer}
  \cup UNION {{ix.programAddress} \cup {ac.address : ac \in RangeOf(ix.accounts)} :
              ix \in RangeOf(tx.instructions)}

MessageSigns(tx, a) ==
  \/ a = tx.feePayer
  \/ \E ix \in RangeOf(tx.instructions) : \E ac \in RangeOf(ix.accounts) :
       ac.address = a /\ RoleIsSigner(ac.role)

MessageWrites(tx, a) ==
  \/ a = tx.feePayer
  \/ \E ix \in RangeOf(tx.instructions) : \E ac \in RangeOf(ix.accounts) :
       ac.address = a /\ RoleIsWritable(ac.role)

\* the addresses of S in ascending order: the i-th has i - 1 addresses below it
SortAddresses(S) ==
  <<>> \o [i \in 1..Cardinality(S) |->
             CHOOSE a \in S :
               Cardinality({y \in S : AddressRank(y) < AddressRank(a)}) = i - 1]

\* static accounts: fee payer, then signers, then the rest, writable first
StaticAccounts(tx) ==
  LET all == MessageAddresses(tx) \ {tx.feePayer}
      ws  == {a \in all : MessageSigns(tx, a) /\ MessageWrites(tx, a)}
      rs  == {a \in all : MessageSigns(tx, a) /\ ~MessageWrites(tx, a)}
      wn  == {a \in all : ~MessageSigns(tx, a) /\ MessageWrites(tx, a)}
      rn  == {a \in all : ~MessageSigns(tx, a) /\ ~MessageWrites(tx, a)}
  IN  <<tx.feePayer>> \o SortAddresses(ws) \o SortAddresses(rs)
        \o SortAddresses(wn) \o SortAddresses(rn)

IndexOf(seq, x) == CHOOSE i \in DOMAIN seq : seq[i] = x

CompileInstruction(ix, static) ==
  [programAddressIndex |-> IndexOf(static, ix.programAddress) - 1,
   accountIndices |-> [i \in DOMAIN ix.accounts |->
                         IndexOf(static, ix.accounts[i].address) - 1],
   data |-> ix.data]

\* a faulty compile: the instructions come out in reverse order
CompileTransactionReversed(tx) ==
  IF \E a \in MessageAddresses(tx) : ~IsAddress(a)
  THEN [ok |-> FALSE]
  ELSE LET static == StaticAccounts(tx)
           n      == Len(tx.instructions)
       IN  [ok |-> TRUE,
            numSignatures |-> Cardinality({a \in RangeOf(static) : MessageSigns(tx, a)}),
            staticAccounts |-> static,
            lifetimeToken |-> tx.lifetime.blockhash,
            instructions |-> [i \in DOMAIN tx.instructions |->
                                CompileInstruction(tx.instructions[n + 1 - i], static)]]

\* compileTransaction: the compiled message with one signature slot per signer;
\* encoding an address that is not well formed throws
CompileTransaction(tx) ==
  IF \E a \in MessageAddresses(tx) : ~IsAddress(a)
  THEN [ok |-> FALSE]
  ELSE LET static == StaticAccounts(tx)
       IN  [ok |-> TRUE,
            numSignatures |-> Cardinality({a \in RangeOf(static) : MessageSigns(tx, a)}),
            staticAccounts |-> static,
            lifetimeToken |-> tx.lifetime.blockhash,
            instructions |-> [i \in DOMAIN tx.instructions |->
                                CompileInstruction(tx.instructions[i], static)]]

\* bytes of a compact-u16 length prefix
ShortVecLen(n) == IF n < 128 THEN 1 ELSE IF n < 16384 THEN 2 ELSE 3

RECURSIVE SumSeq(_)
SumSeq(s) == IF s = <<>> THEN 0 ELSE s[1] + SumSeq(Tail(s))

CompiledInstructionSize(cix) ==
  1 + ShortVecLen(Len(cix.accountIndices)) + Len(cix.accountIndices)
    + ShortVecLen(DataLen(cix.data)) + DataLen(cix.data)

\* bytes of the serialized version-0 transaction
SerializedSize(ctx) ==
  ShortVecLen(ctx.numSignatures) + 64 * ctx.numSignatures
  + 1 + 3
  + ShortVecLen(Len(ctx.staticAccounts)) + 32 * Len(ctx.staticAccounts)
  + 32
  + ShortVecLen(Len(ctx.instructions))
  + SumSeq([i \in DOMAIN ctx.instructions |-> CompiledInstructionSize(ctx.instructions[i])])
  + 1

\* base64 text of n bytes: 4 characters per 3 bytes, '=' padded
Base64Chars(n) == [data |-> (4 * n + 2) \div 3, pad |-> (3 - (n % 3)) % 3]

\* Buffer.from(text, 'base64').length
Base64DecodedLength(b64) == (3 * b64.data) \div 4

\* getBase64EncodedWireTransaction
GetBase64EncodedWireTransaction(ctx) ==
  [t |-> "string", b64 |-> Base64Chars(SerializedSize(ctx)), tx |-> ctx]

(***************************************************************************)
(* shared/transactions.js and shared/builders.js                           *)
(***************************************************************************)
MAX_TRANSACTION_SIZE == 1232
WARNING_THRESHOLD == 1100
MAX_INSTRUCTIONS == 64

\* a faulty size check: the limit is not enforced
validateTransactionSizeUnbounded(wireTransaction) ==
  IF wireTransaction.t # "string"
  THEN [valid |-> FALSE, size |-> 0, error |-> "Invalid transaction format",
        errorValues |-> <<>>, warning |-> FALSE]
  ELSE [valid |-> TRUE, size |-> Base64DecodedLength(wireTransaction.b64),
        error |-> "", errorValues |-> <<>>, warning |-> FALSE]

\* validateTransactionSize(wireTransaction, protocolName); errorValues are
\* the numbers the error message holds, in the order it holds them
validateTransactionSize(wireTransaction) ==
  IF wireTransaction.t # "string"
  THEN [valid |-> FALSE, size |-> 0, error |-> "Invalid transaction format",
        errorValues |-> <<>>, warning |-> FALSE]
  ELSE LET sizeInBytes == Base64DecodedLength(wireTransaction.b64)
       IN  IF sizeInBytes > MAX_TRANSACTION_SIZE
           THEN [valid |-> FALSE, size |-> sizeInBytes,
                 error |-> "Transaction too large",
                 errorValues |-> <<sizeInBytes, MAX_TRANSACTION_SIZE>>,
                 warning |-> FALSE]
           ELSE [valid |-> TRUE, size |-> sizeInBytes, error |-> "",
                 errorValues |-> <<>>, warning |-> sizeInBytes > WARNING_THRESHOLD]

\* a faulty count check: the upper limit is one too high
validateInstructionCountOffByOne(instructionCount) ==
  IF instructionCount < 0
  THEN [valid |-> FALSE, count |-> instructionCount,
        error |-> "Invalid instruction count", errorValues |-> <<instructionCount>>,
        warning |-> FALSE]
  ELSE IF instructionCount = 0
  THEN [valid |-> FALSE, count |-> 0,
        error |-> "Invalid transaction: must contain at least one instruction",
        errorValues |-> <<>>, warning |-> FALSE]
  ELSE IF instructionCount > MAX_INSTRUCTIONS + 1
  THEN [valid |-> FALSE, count |-> instructionCount,
        error |-> "Too many instructions",
        errorValues |-> <<instructionCount, MAX_INSTRUCTIONS>>, warning |-> FALSE]
  ELSE [valid |-> TRUE, count |-> instructionCount, error |-> "",
        errorValues |-> <<>>, warning |-> instructionCount > 10]

\* validateInstructionCount(instructionCount, protocolName) for an integer
\* count, which the length of an array always is; errorValues are the
\* numbers the error message holds
validateInstructionCount(instructionCount) ==
  IF instructionCount < 0
  THEN [valid |-> FALSE, count |-> instructionCount,
        error |-> "Invalid instruction count", errorValues |-> <<instructionCount>>,
        warning |-> FALSE]
  ELSE IF instructionCount = 0
  THEN [valid |-> FALSE, count |-> 0,
        error |-> "Invalid transaction: must contain at least one instruction",
        errorValues |-> <<>>, warning |-> FALSE]
  ELSE IF instructionCount > MAX_INSTRUCTIONS
  THEN [valid |-> FALSE, count |-> instructionCount,
        error |-> "Too many instructions",
        errorValues |-> <<instructionCount, MAX_INSTRUCTIONS>>, warning |-> FALSE]
  ELSE [valid |-> TRUE, count |-> instructionCount, error |-> "",
        errorValues |-> <<>>, warning |-> instructionCount > 10]

Throw(error) == [status |-> "throw", error |-> error]
NoThrow == [status |-> "ok"]

\* validateBuiltTransaction(wireTransaction, protocolName, transactionMessage):
\* the message is Undefined when the caller passes none
validateBuiltTransaction(wireTransaction, transactionMessage) ==
  LET sizeValidation == validateTransactionSize(wireTransaction)
  IN  IF ~sizeValidation.valid THEN Throw(sizeValidation.error)
      ELSE IF transactionMessage = Undefined THEN NoThrow
      ELSE LET countValidation ==
                 validateInstructionCount(Len(transactionMessage.instructions))
           IN  IF ~countValidation.valid THEN Throw(countValidation.error)
               ELSE NoThrow


(***************************************************************************)
(* IEEE-754 double arithmetic, as far as the amount codec uses it.         *)
(***************************************************************************)
\* quotient and remainder of a by b > 0: long division over the digits of a,
\* most significant first
BNDivMod(a, b) ==
  LET RECURSIVE From(_, _, _), Digit(_, _, _)
      \* the largest x + y, y < 2^(k + 1), with b * (x + y) <= cur
      Digit(cur, k, x) ==
        IF k < 0 THEN x
        ELSE IF BNCmp(BNMulSmall(b, x + Pow2(k)), cur) <= 0
        THEN Digit(cur, k - 1, x + Pow2(k))
        ELSE Digit(cur, k - 1, x)
      From(i, rem, q) ==
        IF i = 0 THEN [q |-> BNNorm(q), r |-> rem]
        ELSE LET cur == BNNorm(<<a[i]>> \o rem)
                 d   == Digit(cur, 7, 0)
                 r   == BNSub(cur, BNMulSmall(b, d))
             IN  CASE Evaluated(r) -> From(i - 1, r, <<d>> \o q)
      start == IF Len(a) >= Len(b) THEN Len(a) - Len(b) + 1 ELSE 0
  IN  From(start, SubSeq(a, start + 1, Len(a)), <<>>)

\* the number of zero bits below the lowest set bit of a > 0
BNTrailingZeroBits(a) ==
  LET z == CHOOSE i \in 0..(Len(a) - 1) :
             a[i + 1] # 0 /\ \A j \in 1..i : a[j] = 0
      d == a[z + 1]
  IN  8 * z + (CHOOSE k \in 0..7 : d % Pow2(k + 1) = Pow2(k))

\* the canonical form of m * 2^e: an odd mantissa (or zero)
DblNorm(neg, m, e) ==
  IF m = <<>> THEN JSNumber(neg, <<>>, 0)
  ELSE LET z == BNTrailingZeroBits(m) IN JSNumber(neg, BNShr(m, z), e + z)

\* the Number of a machine-size natural
JSInt(n) == DblNorm(FALSE, BNFromNat(n), 0)

\* round m * 2^e (plus a positive remainder below the last bit when sticky)
\* to the nearest double, ties to even
DblRound(neg, m, e, sticky) ==
  LET bits == BNBitLen(m)
  IN  IF bits <= 53 THEN DblNorm(neg, m, e)
      ELSE LET shift == bits - 53
               keep  == BNShr(m, shift)
               low   == BNLowBits(m, shift)
               half  == BNPow2(shift - 1)
               c     == BNCmp(low, half)
               up    == c > 0 \/ (c = 0 /\ (sticky \/ keep[1] % 2 = 1))
           IN  DblNorm(neg, IF up THEN BNAdd(keep, <<1>>) ELSE keep, e + shift)

\* the double nearest n / d, for naturals n and d > 0
DblFromRatio(neg, n, d) ==
  IF n = <<>> THEN JSNumber(neg, <<>>, 0)
  ELSE LET s   == 55 - (BNBitLen(n) - BNBitLen(d))
           num == IF s >= 0 THEN BNShl(n, s) ELSE n
           den == IF s >= 0 THEN d ELSE BNShl(d, -s)
           qr  == BNDivMod(num, den)
       IN  DblRound(neg, qr.q, -s, qr.r # <<>>)

\* the Number a decimal literal denotes: its digits in groups of four, `frac`
\* of the digits after the point
Decimal(digits, frac) == DblFromRatio(FALSE, BNFromDecimal(digits), BNPow10(frac))

\* -1, 0, 1 comparing the magnitudes of two finite Numbers
DblCmpMagnitude(a, b) ==
  IF a.e >= b.e THEN BNCmp(BNShl(a.m, a.e - b.e), b.m)
  ELSE BNCmp(a.m, BNShl(b.m, b.e - a.e))

\* a < b and a > b for finite Numbers (-0 equals +0)
DblLess(a, b) ==
  LET az == a.m = <<>>
      bz == b.m = <<>>
  IN  IF az /\ bz THEN FALSE
      ELSE IF az THEN ~b.neg
      ELSE IF bz THEN a.neg
      ELSE IF a.neg # b.neg THEN a.neg
      ELSE IF a.neg THEN DblCmpMagnitude(a, b) > 0
      ELSE DblCmpMagnitude(a, b) < 0

DblGreater(a, b) == DblLess(b, a)

\* a * b, rounded
DblMul(a, b) == DblRound(a.neg # b.neg, BNMul(a.m, b.m), a.e + b.e, FALSE)

\* Math.pow(10, d) for 0 <= d <= 22, where it is exact
MathPow10(d) == DblNorm(FALSE, BNPow10(d), 0)

\* Math.floor of a finite Number
MathFloor(v) ==
  IF v.e >= 0 THEN v
  ELSE LET q     == BNShr(v.m, -v.e)
           exact == BNLowBits(v.m, -v.e) = <<>>
       IN  IF v.neg /\ ~exact THEN DblNorm(TRUE, BNAdd(q, <<1>>), 0)
           ELSE DblNorm(v.neg, q, 0)

\* Number.MAX_SAFE_INTEGER = 2^53 - 1
MAX_SAFE_INTEGER == BNSub(BNPow2(53), <<1>>)

\* Number.isSafeInteger
NumberIsSafeInteger(v) ==
  /\ NumberIsInteger(v)
  /\ BNCmp(NumberMagnitude(v), MAX_SAFE_INTEGER) <= 0

\* MAX_SAFE_AMOUNTS[d], d = 0..18, kept at index d + 1: the literals
\* 9007199254740991, 900719925474099.1, ..., 0.009007199254740991
MAX_SAFE_AMOUNTS ==
  <<>> \o [i \in 1..19 |-> Decimal(<<9007, 1992, 5474, 0991>>, i - 1)]

\* a small natural as a machine integer (decimals, counts)
BNToNat(a) == IF a = <<>> THEN 0 ELSE a[1]

\* a faulty codec: the sign of the amount is not checked
safeAmountToRawSigned(amount, decimals) ==
  IF ~IsTypeofNumber(amount) \/ amount.t = "nan"
  THEN [ok |-> FALSE, error |-> "Invalid amount: must be a number"]
  ELSE IF amount.t = "inf"
  THEN [ok |-> FALSE, error |-> "Invalid amount: must be finite"]
  ELSE IF ~NumberIsInteger(decimals) \/ DblLess(decimals, JSInt(0))
            \/ DblGreater(decimals, JSInt(18))
  THEN [ok |-> FALSE, error |-> "Invalid decimals"]
  ELSE LET d == BNToNat(NumberMagnitude(decimals))
       IN  IF DblGreater(amount, MAX_SAFE_AMOUNTS[d + 1])
           THEN [ok |-> FALSE, error |-> "Amount overflow"]
           ELSE LET rawAmount == MathFloor(DblMul(amount, MathPow10(d)))
                IN  IF ~NumberIsSafeInteger(rawAmount)
                    THEN [ok |-> FALSE, error |-> "Integer overflow"]
                    ELSE [ok |-> TRUE, value |-> rawAmount]

\* safeAmountToRaw(amount, decimals): [ok, value] or [ok, error]
safeAmountToRaw(amount, decimals) ==
  IF ~IsTypeofNumber(amount) \/ amount.t = "nan"
  THEN [ok |-> FALSE, error |-> "Invalid amount: must be a number"]
  ELSE IF amount.t = "inf"
  THEN [ok |-> FALSE, error |-> "Invalid amount: must be finite"]
  ELSE IF DblLess(amount, JSInt(0))
  THEN [ok |-> FALSE, error |-> "Invalid amount: must be non-negative"]
  ELSE IF ~NumberIsInteger(decimals) \/ DblLess(decimals, JSInt(0))
            \/ DblGreater(decimals, JSInt(18))
  THEN [ok |-> FALSE, error |-> "Invalid decimals"]
  ELSE LET d             == BNToNat(NumberMagnitude(decimals))
           maxSafeAmount == MAX_SAFE_AMOUNTS[d + 1]
       IN  IF DblGreater(amount, maxSafeAmount)
           THEN [ok |-> FALSE, error |-> "Amount overflow"]
           ELSE LET multiplier == MathPow10(d)
                    rawAmount  == MathFloor(DblMul(amount, multiplier))
                IN  IF ~NumberIsSafeInteger(rawAmount)
                    THEN [ok |-> FALSE, error |-> "Integer overflow"]
                    ELSE [ok |-> TRUE, value |-> rawAmount]

(***************************************************************************)
(* safeRawToAmount and the strings it works on.  A string is the sequence  *)
(* of its characters.                                                      *)
(***************************************************************************)
DigitChars == <<"0", "1", "2", "3", "4", "5", "6", "7", "8", "9">>

\* quotient and remainder of a by a machine-size k < 2^22
BNDivModSmall(a, k) ==
  LET RECURSIVE From(_, _, _)
      From(i, rem, q) ==
        IF i = 0 THEN [q |-> BNNorm(q), r |-> rem]
        ELSE LET cur == rem * 256 + a[i]
                 r   == cur % k
             IN  CASE Evaluated(r) -> From(i - 1, r, <<cur \div k>> \o q)
  IN  From(Len(a), 0, <<>>)

\* BigInt.prototype.toString(): the decimal digits, most significant first
BigIntToString(n) ==
  LET RECURSIVE Digits(_, _)
      Digits(rest, acc) ==
        IF rest = <<>> THEN acc
        ELSE LET qr   == BNDivModSmall(rest, 10)
                 next == <<DigitChars[qr.r + 1]>> \o acc
             IN  CASE Evaluated(next) -> Digits(qr.q, next)
  IN  IF n = <<>> THEN <<"0">> ELSE Digits(n, <<>>)

\* the natural a sequence of decimal digit characters writes (0 for none)
BNFromDigits(cs) ==
  LET digit(c) == (CHOOSE i \in 1..10 : DigitChars[i] = c) - 1
      RECURSIVE Read(_, _)
      Read(i, acc) ==
        IF i > Len(cs) THEN acc
        ELSE LET next == BNAdd(BNMulSmall(acc, 10), BNFromNat(digit(cs[i])))
             IN  CASE Evaluated(next) -> Read(i + 1, next)
  IN  Read(1, <<>>)

\* BigInt(string) for the strings callers pass: an optional '-' and decimal
\* digits (the empty string is 0n); anything else is a SyntaxError
StringToBigInt(cs) ==
  LET neg    == cs # <<>> /\ cs[1] = "-"
      digits == IF neg THEN Tail(cs) ELSE cs
  IN  IF (neg /\ digits = <<>>)
         \/ \E i \in 1..Len(digits) : \A j \in 1..10 : DigitChars[j] # digits[i]
      THEN [ok |-> FALSE]
      ELSE LET mag == BNFromDigits(digits)
           IN  [ok |-> TRUE, neg |-> neg /\ mag # <<>>, mag |-> mag]

\* a faulty padding: the fill goes after the string
PadEnd(cs, n, c) ==
  IF Len(cs) >= n THEN cs ELSE cs \o [i \in 1..(n - Len(cs)) |-> c]

\* String.prototype.padStart(n, c)
PadStart(cs, n, c) ==
  IF Len(cs) >= n THEN cs ELSE [i \in 1..(n - Len(cs)) |-> c] \o cs

\* safeRawToAmount(rawAmount, decimals): [ok, value] with the string, or
\* [ok, error]
safeRawToAmount(rawAmount, decimals) ==
  LET \* fractionalStr.replace(/0+$/, '')
      TrimZeros(fractionalStr) ==
        SubSeq(fractionalStr, 1,
               CHOOSE n \in 0..Len(fractionalStr) :
                 /\ (n = 0 \/ fractionalStr[n] # "0")
                 /\ \A j \in (n + 1)..Len(fractionalStr) : fractionalStr[j] = "0")
      Join(wholeStr, trimmedFractional) ==
        IF trimmedFractional = <<>> THEN [ok |-> TRUE, value |-> wholeStr]
        ELSE [ok |-> TRUE, value |-> wholeStr \o <<".">> \o trimmedFractional]
      \* parts.q is wholePart, parts.r is fractionalPart
      Format(parts, d) ==
        Join(BigIntToString(parts.q),
             TrimZeros(PadStart(BigIntToString(parts.r), d, "0")))
      Convert(raw, d) ==
        IF ~raw.ok THEN raw
        ELSE IF raw.neg
        THEN [ok |-> FALSE, error |-> "Invalid raw amount: must be non-negative"]
        ELSE Format(BNDivMod(raw.mag, NumberMagnitude(MathPow10(d))), d)
      ParsedOr(parsed) ==
        IF parsed.ok THEN parsed
        ELSE [ok |-> FALSE, error |-> "Invalid raw amount: cannot parse as BigInt"]
  IN  IF ~NumberIsInteger(decimals) \/ DblLess(decimals, JSInt(0))
           \/ DblGreater(decimals, JSInt(18))
      THEN [ok |-> FALSE, error |-> "Invalid decimals"]
      ELSE Convert(
             IF rawAmount.t = "bigint" THEN ToBigInt(rawAmount)
             ELSE IF rawAmount.t = "string"
             THEN ParsedOr(StringToBigInt(rawAmount.text))
             ELSE IF IsTypeofNumber(rawAmount)
             THEN IF ~NumberIsSafeInteger(rawAmount)
                  THEN [ok |-> FALSE, error |-> "Invalid raw amount: is not safe integer"]
                  ELSE IF DblLess(rawAmount, JSInt(0))
                  THEN [ok |-> FALSE,
                        error |-> "Invalid raw amount: must be non-negative integer"]
                  ELSE ToBigInt(rawAmount)
             ELSE [ok |-> FALSE,
                   error |-> "Invalid raw amount: must be number, bigint, or string"],
             BNToNat(NumberMagnitude(decimals)))

\* parseFloat of a string of decimal digits with at most one '.': the
\* nearest Number
ParseFloat(cs) ==
  LET dots  == {i \in 1..Len(cs) : cs[i] = "."}
      dot   == IF dots = {} THEN Len(cs) + 1 ELSE CHOOSE i \in dots : TRUE
      whole == SubSeq(cs, 1, dot - 1)
      frac  == SubSeq(cs, dot + 1, Len(cs))
  IN  DblFromRatio(FALSE, BNFromDigits(whole \o frac), BNPow10(Len(frac)))

(***************************************************************************)
(* Optional string fields: a property that is not there reads as           *)
(* undefined; undefined and the empty string are falsy.                    *)
(***************************************************************************)
Absent == "<undefined>"
Falsy(s) == s \in {Absent, ""}

(***************************************************************************)
(* Solend deposit and withdraw builders                                    *)
(***************************************************************************)
BytesData(bytes) == [kind |-> "bytes", bytes |-> bytes]
TextData(text) == [kind |-> "utf8", text |-> text]

\* new Uint8Array(9); data[0] = discriminator; setBigUint64(1, BigInt(amount), true)
SolendInstructionData(discriminator, int) ==
  BytesData(<<discriminator>> \o SetBigUint64(int))

\* a faulty account list: the second entry of the signer is merged into the first
DepositAccountsDeduplicated(userAddress, prepared) ==
  << Account(prepared.userUsdcAta, "WRITABLE"),
     Account(prepared.userCusdcAta, "WRITABLE"),
     Account(USDC_RESERVE, "WRITABLE"),
     Account(USDC_LIQUIDITY_SUPPLY, "WRITABLE"),
     Account(CUSDC_MINT, "WRITABLE"),
     Account(MAIN_POOL_MARKET, "WRITABLE"),
     Account(LENDING_MARKET_AUTHORITY, "READONLY"),
     Account(CUSDC_SUPPLY, "WRITABLE"),
     Account(prepared.obligationAccount, "WRITABLE"),
     Account(userAddress, "READONLY_SIGNER"),
     Account(SOLEND_ACCOUNT_1, "READONLY"),
     Account(SOLEND_ACCOUNT_2, "READONLY"),
     Account(TOKEN_PROGRAM_ID, "READONLY") >>

DepositAccounts(userAddress, prepared) ==
  << Account(prepared.userUsdcAta, "WRITABLE"),
     Account(prepared.userCusdcAta, "WRITABLE"),
     Account(USDC_RESERVE, "WRITABLE"),
     Account(USDC_LIQUIDITY_SUPPLY, "WRITABLE"),
     Account(CUSDC_MINT, "WRITABLE"),
     Account(MAIN_POOL_MARKET, "WRITABLE"),
     Account(LENDING_MARKET_AUTHORITY, "READONLY"),
     Account(CUSDC_SUPPLY, "WRITABLE"),
     Account(prepared.obligationAccount, "WRITABLE"),
     Account(userAddress, "READONLY_SIGNER"),
     Account(SOLEND_ACCOUNT_1, "READONLY"),
     Account(SOLEND_ACCOUNT_2, "READONLY"),
     Account(userAddress, "READONLY_SIGNER"),
     Account(TOKEN_PROGRAM_ID, "READONLY") >>

WithdrawAccounts(userAddress, prepared) ==
  << Account(CUSDC_SUPPLY, "WRITABLE"),
     Account(prepared.userCusdcAta, "WRITABLE"),
     Account(USDC_RESERVE, "WRITABLE"),
     Account(prepared.obligationAccount, "WRITABLE"),
     Account(MAIN_POOL_MARKET, "WRITABLE"),
     Account(LENDING_MARKET_AUTHORITY, "READONLY"),
     Account(prepared.userUsdcAta, "WRITABLE"),
     Account(CUSDC_MINT, "WRITABLE"),
     Account(USDC_LIQUIDITY_SUPPLY, "WRITABLE"),
     Account(userAddress, "READONLY_SIGNER"),
     Account(userAddress, "READONLY_SIGNER"),
     Account(TOKEN_PROGRAM_ID, "READONLY"),
     Account(USDC_RESERVE, "READONLY") >>

\* compileTransaction, getBase64EncodedWireTransaction, validateBuiltTransaction
\* and the return of a builder; `extra` is the builder's metadata, or what
\* computing it threw
FinishTransaction(txMessage, passMessage, extra) ==
  LET transaction == CompileTransaction(txMessage)
  IN  IF ~transaction.ok THEN Throw("SolanaError: not a base58-encoded address")
      ELSE LET wireTransaction == GetBase64EncodedWireTransaction(transaction)
               checked == validateBuiltTransaction(
                            wireTransaction,
                            IF passMessage THEN txMessage ELSE Undefined)
           IN  IF checked.status = "throw" THEN checked
               ELSE IF "status" \in DOMAIN extra THEN extra
               ELSE [status |-> "ok", wireTransaction |-> wireTransaction,
                     message |-> txMessage] @@ extra

\* the metadata of a Solend result; amount / 1_000_000 is a TypeError for a
\* BigInt amount
SolendMetadata(key, amount, prepared) ==
  IF amount.t = "bigint"
  THEN Throw("TypeError: Cannot mix BigInt and other types")
  ELSE key :> [amountRaw |-> amount, tokenSymbol |-> "USDC",
               tokenMint |-> USDC_MINT, account |-> prepared.obligationAccount]

buildDepositTransaction(params, context, prepared) ==
  IF ~IsAddress(context.wallet) THEN Throw("SolanaError: invalid address")
  ELSE LET userAddress == context.wallet
           int         == ToBigInt(params.amount)
       IN  IF ~int.ok THEN Throw("BigInt: cannot convert")
           ELSE LET depositInstruction ==
                      [programAddress |-> SOLEND_PROGRAM_ID,
                       accounts |-> DepositAccounts(userAddress, prepared),
                       data |-> SolendInstructionData(
                         INSTRUCTION_DEPOSIT_RESERVE_LIQUIDITY_AND_OBLIGATION_COLLATERAL,
                         int)]
                    txMessage ==
                      AppendTransactionMessageInstruction(
                        depositInstruction,
                        CreateTransactionMessage(userAddress, prepared.lifetime))
                IN  FinishTransaction(
                      txMessage, TRUE,
                      SolendMetadata("deposit", params.amount, prepared))

buildWithdrawTransaction(params, context, prepared) ==
  IF ~IsAddress(context.wallet) THEN Throw("SolanaError: invalid address")
  ELSE LET userAddress == context.wallet
           int         == ToBigInt(params.amount)
       IN  IF ~int.ok THEN Throw("BigInt: cannot convert")
           ELSE LET withdrawInstruction ==
                      [programAddress |-> SOLEND_PROGRAM_ID,
                       accounts |-> WithdrawAccounts(userAddress, prepared),
                       data |-> SolendInstructionData(
                         INSTRUCTION_WITHDRAW_OBLIGATION_COLLATERAL_AND_REDEEM_RESERVE_COLLATERAL,
                         int)]
                    txMessage ==
                      AppendTransactionMessageInstruction(
                        withdrawInstruction,
                        CreateTransactionMessage(userAddress, prepared.lifetime))
                IN  FinishTransaction(
                      txMessage, TRUE,
                      SolendMetadata("withdraw", params.amount, prepared))

\* buildSolendTransaction({ context, params, prepared })
buildSolendTransaction(context, params, prepared) ==
  IF params = Undefined
  THEN Throw("params is undefined in buildSolendTransaction")
  ELSE LET operation == IF Falsy(params.operation) THEN "deposit"
                        ELSE params.operation
       IN  IF operation = "withdraw"
           THEN LET r == buildWithdrawTransaction(params, context, prepared)
                IN  IF r.status = "throw" THEN r
                    ELSE [status |-> "ok", wireTransaction |-> r.wireTransaction,
                          withdraw |-> r.withdraw]
           ELSE LET r == buildDepositTransaction(params, context, prepared)
                IN  IF r.status = "throw" THEN r
                    ELSE [status |-> "ok", wireTransaction |-> r.wireTransaction,
                          deposit |-> r.deposit]


(***************************************************************************)
(* Wallet: the token registry and the transfer builder                     *)
(***************************************************************************)
NullMint == "null"

\* TOKENS, in insertion order
TOKENS ==
  << [symbol |-> "SOL", decimals |-> 9, mint |-> NullMint, isNative |-> TRUE],
     [symbol |-> "USDC", decimals |-> 6, mint |-> USDC_MINT, isNative |-> FALSE],
     [symbol |-> "USDT", decimals |-> 6, mint |-> USDT_MINT, isNative |-> FALSE],
     [symbol |-> "BONK", decimals |-> 5, mint |-> BONK_MINT, isNative |-> FALSE] >>

\* String.prototype.toUpperCase on the symbols callers pass
ToUpperCase(str) ==
  CASE str = "usdc" -> "USDC"
    [] str = "sol" -> "SOL"
    [] str = "doge" -> "DOGE"
    [] OTHER -> str

\* getToken(symbol): [ok, token], or [ok |-> FALSE] for its throw
getToken(symbol) ==
  LET key == ToUpperCase(symbol)
  IN  IF \E i \in DOMAIN TOKENS : TOKENS[i].symbol = key
      THEN [ok |-> TRUE,
            token |-> TOKENS[CHOOSE i \in DOMAIN TOKENS : TOKENS[i].symbol = key]]
      ELSE [ok |-> FALSE]

\* Object.values(TOKENS).find(t => t.mint && String(t.mint) === mint)
FindTokenByMint(mint) ==
  LET hits == {i \in DOMAIN TOKENS :
                 TOKENS[i].mint # NullMint /\ TOKENS[i].mint = mint}
  IN  IF hits = {} THEN [ok |-> FALSE]
      ELSE [ok |-> TRUE,
            token |-> TOKENS[CHOOSE i \in hits : \A j \in hits : i <= j]]

\* a memo is undefined or a string of `units` UTF-16 units, each `width` bytes
\* in UTF-8; the empty string is falsy
MemoTruthy(memo) == memo # Undefined /\ memo.units > 0

buildSolTransferInstruction(from, to, lamports) ==
  [programAddress |-> SYSTEM_PROGRAM_ID,
   accounts |-> << Account(from, "WRITABLE_SIGNER"), Account(to, "WRITABLE") >>,
   data |-> BytesData(SetUint32(2) \o SetBigUint64(ToBigInt(lamports)))]

buildTokenTransferInstruction(from, to, owner, amount) ==
  [programAddress |-> TOKEN_PROGRAM_ID,
   accounts |-> << Account(from, "WRITABLE"), Account(to, "WRITABLE"),
                   Account(owner, "READONLY_SIGNER") >>,
   data |-> BytesData(<<3>> \o SetBigUint64(ToBigInt(amount)))]

buildMemoInstruction(memo) ==
  [programAddress |-> MEMO_PROGRAM_ID, accounts |-> <<>>,
   data |-> TextData([units |-> memo.units, width |-> memo.width])]

\* the second half of buildTransferTransaction: the message, the transfer
\* instruction, the memo when there is one, the wire transaction
TransferAssemble(params, userPubkey, recipient, prepared, isToken, amountRaw, symbol) ==
  LET txMessage0 == CreateTransactionMessage(userPubkey, prepared.lifetime)
      transferInstruction ==
        IF isToken
        THEN buildTokenTransferInstruction(prepared.senderTokenAccount,
                                           prepared.recipientTokenAccount,
                                           userPubkey, amountRaw)
        ELSE buildSolTransferInstruction(userPubkey, recipient, amountRaw)
      txMessage1 == AppendTransactionMessageInstruction(transferInstruction, txMessage0)
      txMessage ==
        IF MemoTruthy(params.memo)
        THEN AppendTransactionMessageInstruction(buildMemoInstruction(params.memo),
                                                 txMessage1)
        ELSE txMessage1
      r == FinishTransaction(
             txMessage, TRUE,
             [transfer |-> [from |-> userPubkey, to |-> recipient,
                            mint |-> params.mint, symbol |-> symbol,
                            memo |-> params.memo]])
  IN  IF isToken /\ (~IsAddress(prepared.senderTokenAccount)
                     \/ ~IsAddress(prepared.recipientTokenAccount))
      THEN Throw("SolanaError: invalid address")
      ELSE IF r.status = "throw" THEN r
      ELSE [status |-> "ok", wireTransaction |-> r.wireTransaction,
            transfer |-> r.transfer]

\* the token of a transfer that names one: the symbol wins over the mint
ResolveToken(params) ==
  IF ~Falsy(params.symbol)
  THEN LET t == getToken(params.symbol)
       IN  IF t.ok THEN t ELSE [ok |-> FALSE, error |-> "Unknown token"]
  ELSE LET t == FindTokenByMint(params.mint)
       IN  IF t.ok THEN t ELSE [ok |-> FALSE, error |-> "Unknown token mint"]

\* SOL transfers use 9 decimals and the symbol 'SOL' without the registry
buildTransferTransaction(params, context, prepared) ==
  IF ~IsAddress(context.wallet) \/ ~IsAddress(params.recipient)
  THEN Throw("SolanaError: invalid address")
  ELSE LET isToken == ~Falsy(params.mint) \/ ~Falsy(params.symbol)
           found == IF isToken THEN ResolveToken(params)
                    ELSE [ok |-> TRUE, token |-> [symbol |-> "SOL", decimals |-> 9]]
       IN  IF ~found.ok THEN Throw(found.error)
           ELSE LET amountRaw == safeAmountToRaw(params.amount,
                                                 JSInt(found.token.decimals))
                IN  IF ~amountRaw.ok THEN Throw("Amount conversion failed")
                    ELSE IF isToken /\ (Falsy(prepared.senderTokenAccount)
                                        \/ Falsy(prepared.recipientTokenAccount))
                    THEN Throw("Token accounts must be provided for SPL token transfers")
                    ELSE TransferAssemble(params, context.wallet, params.recipient,
                                          prepared, isToken, amountRaw.value,
                                          found.token.symbol)

\* buildWalletTransaction({ context, params, prepared })
buildWalletTransaction(context, params, prepared) ==
  IF params = Undefined THEN Throw("TypeError: params is undefined")
  ELSE LET operation == IF Falsy(params.operation) THEN "transfer"
                        ELSE params.operation
       IN  IF operation # "transfer" THEN Throw("Unknown wallet operation")
           ELSE buildTransferTransaction(params, context, prepared)

(***************************************************************************)
(* Jupiter: the swap pass-through                                          *)
(***************************************************************************)
\* !transaction: undefined and the empty string are falsy
TransactionFalsy(transaction) ==
  \/ transaction = Undefined
  \/ (transaction.t = "string" /\ transaction.b64.data = 0)

buildJupiterSwapTransaction(params, context, prepared) ==
  IF TransactionFalsy(prepared.transaction)
  THEN Throw("No transaction provided by Jupiter Ultra API")
  ELSE LET checked == validateBuiltTransaction(prepared.transaction, Undefined)
       IN  IF checked.status = "throw" THEN checked
           ELSE IF prepared.route = Undefined \/ prepared.fees = Undefined
           THEN Throw("TypeError: cannot read properties of undefined")
           ELSE [status |-> "ok", wireTransaction |-> prepared.transaction,
                 swap |-> [route |-> prepared.route, fees |-> prepared.fees,
                           router |-> prepared.router,
                           requestId |-> prepared.requestId]]

\* buildJupiterTransaction({ context, params, prepared })
buildJupiterTransaction(context, params, prepared) ==
  IF params = Undefined THEN Throw("TypeError: params is undefined")
  ELSE IF params.operation = "swap"
  THEN buildJupiterSwapTransaction(params, context, prepared)
  ELSE Throw("Unknown Jupiter operation")

(***************************************************************************)
(* enclave.js: the protocol registry and the dispatcher                    *)
(***************************************************************************)
\* const builders = new Map([...]): its entries, in insertion order
buildersEntries ==
  << [id |-> "solend", builder |-> "buildSolendTransaction"],
     [id |-> "jupiter", builder |-> "buildJupiterTransaction"],
     [id |-> "wallet", builder |-> "buildWalletTransaction"] >>

\* the keys of the Map
builders == {buildersEntries[i].id : i \in DOMAIN buildersEntries}

\* a faulty lookup: an id that is not registered gets the first builder
getBuilderOrFirst(id) ==
  IF \E i \in DOMAIN buildersEntries : buildersEntries[i].id = id
  THEN [ok |-> TRUE,
        builder |-> buildersEntries[CHOOSE i \in DOMAIN buildersEntries :
                                      buildersEntries[i].id = id].builder]
  ELSE [ok |-> TRUE, builder |-> buildersEntries[1].builder]

\* getBuilderOrThrow(id)
getBuilderOrThrow(id) ==
  IF ~(\E i \in DOMAIN buildersEntries : buildersEntries[i].id = id)
  THEN [ok |-> FALSE, error |-> "Unsupported protocol"]
  ELSE [ok |-> TRUE,
        builder |-> buildersEntries[CHOOSE i \in DOMAIN buildersEntries :
                                      buildersEntries[i].id = id].builder]

\* getSupportedProtocolIds(): Array.from(builders.keys())
getSupportedProtocolIds == [i \in DOMAIN buildersEntries |-> buildersEntries[i].id]

\* isSupportedProtocol(id): builders.has(id)
isSupportedProtocol(id) == \E i \in DOMAIN buildersEntries : buildersEntries[i].id = id

\* what a call returned or threw, together with the builders it invoked
Invoked(invoked, outcome) ==
  [f \in DOMAIN outcome \cup {"invoked"} |->
     IF f = "invoked" THEN invoked ELSE outcome[f]]

\* builder({ context, params, prepared })
InvokeBuilder(builder, context, params, prepared) ==
  CASE builder = "buildSolendTransaction" ->
         buildSolendTransaction(context, params, prepared)
    [] builder = "buildJupiterTransaction" ->
         buildJupiterTransaction(context, params, prepared)
    [] builder = "buildWalletTransaction" ->
         buildWalletTransaction(context, params, prepared)

\* buildProtocolTransaction({ protocol, context, params, prepared })
buildProtocolTransaction(protocol, context, params, prepared) ==
  LET Dispatch(found) ==
        IF ~found.ok THEN Invoked(<<>>, Throw(found.error))
        ELSE Invoked(<<found.builder>>,
                     InvokeBuilder(found.builder, context, params, prepared))
  IN  Dispatch(getBuilderOrThrow(protocol))


(***************************************************************************)
(* Solend account parsers (context/parser.js, query/obligation.js).  A     *)
(* Buffer is its bytes; every other value is told apart by its kind.  A    *)
(* parse also gives the byte ranges it read, in the order it read them.    *)
(***************************************************************************)
Null == [t |-> "null"]

\* !data || !Buffer.isBuffer(data) is false
IsBuffer(data) == data.t = "buffer"

\* validateBufferBounds with the bounds test left out
validateBufferIsBuffer(data, offset, length, fieldName) ==
  IF ~IsBuffer(data)
  THEN Throw([message |-> "Invalid buffer: expected Buffer", fieldName |-> fieldName])
  ELSE NoThrow

\* validateBufferBounds(data, offset, length, fieldName): the error holds
\* the values its message is built from
validateBufferBounds(data, offset, length, fieldName) ==
  IF ~IsBuffer(data)
  THEN Throw([message |-> "Invalid buffer: expected Buffer", fieldName |-> fieldName])
  ELSE IF offset < 0
  THEN Throw([message |-> "Invalid offset", fieldName |-> fieldName, offset |-> offset])
  ELSE IF length < 0
  THEN Throw([message |-> "Invalid length", fieldName |-> fieldName, length |-> length])
  ELSE LET endOffset == offset + length
       IN  IF endOffset > Len(data.bytes)
           THEN Throw([message |-> "Buffer overflow reading", fieldName |-> fieldName,
                       length |-> length, offset |-> offset, end |-> endOffset,
                       bufferLength |-> Len(data.bytes)])
           ELSE NoThrow

\* safeReadUInt8(data, offset, fieldName); Buffer.readUInt8 throws a
\* RangeError for an offset outside the buffer
safeReadUInt8(data, offset, fieldName) ==
  LET checked == validateBufferBounds(data, offset, 1, fieldName)
  IN  IF checked.status = "throw" THEN checked
      ELSE IF offset < 0 \/ offset + 1 > Len(data.bytes)
      THEN Throw([message |-> "RangeError [ERR_OUT_OF_RANGE]", offset |-> offset])
      ELSE [status |-> "ok", value |-> data.bytes[offset + 1],
            reads |-> <<[fieldName |-> fieldName, offset |-> offset, length |-> 1]>>]

\* Buffer.prototype.slice(start, end): a new Buffer over the SAME memory as
\* the Buffer it is taken from (Node.js: "references the same memory as the
\* original"); `bytes` is what it shows now, `memory` says whose memory it
\* is and where it starts in it
BufferSlice(data, start, end) ==
  [t |-> "buffer", bytes |-> SubSeq(data.bytes, start + 1, end),
   memory |-> [of |-> "data", byteOffset |-> start]]

\* safeSlice(data, start, end, fieldName); Buffer.slice counts a negative
\* index from the end and clamps both indices to the buffer
safeSlice(data, start, end, fieldName) ==
  LET checked == validateBufferBounds(data, start, end - start, fieldName)
      len     == Len(data.bytes)
      Clamp(i) == IF i < 0 THEN (IF len + i < 0 THEN 0 ELSE len + i)
                  ELSE IF i > len THEN len ELSE i
  IN  IF checked.status = "throw" THEN checked
      ELSE [status |-> "ok", value |-> BufferSlice(data, Clamp(start), Clamp(end)),
            reads |-> IF Clamp(end) > Clamp(start)
                      THEN <<[fieldName |-> fieldName, offset |-> Clamp(start),
                              length |-> Clamp(end) - Clamp(start)]>>
                      ELSE <<>>]

RESERVE_OFFSETS ==
  [VERSION |-> 0,
   LIQUIDITY_SUPPLY_PUBKEY |-> 74, LIQUIDITY_SUPPLY_PUBKEY_END |-> 106,
   COLLATERAL_MINT_PUBKEY |-> 221, COLLATERAL_MINT_PUBKEY_END |-> 253,
   COLLATERAL_SUPPLY_PUBKEY |-> 253, COLLATERAL_SUPPLY_PUBKEY_END |-> 285,
   MIN_SIZE |-> 619]

\* parseReserveAccount(data)
parseReserveAccount(data) ==
  IF ~IsBuffer(data) THEN Throw([message |-> "Invalid reserve account data: expected Buffer"])
  ELSE IF Len(data.bytes) < RESERVE_OFFSETS.MIN_SIZE
  THEN Throw([message |-> "Invalid reserve account data: expected at least",
              expected |-> RESERVE_OFFSETS.MIN_SIZE, got |-> Len(data.bytes)])
  ELSE LET version == safeReadUInt8(data, RESERVE_OFFSETS.VERSION, "version")
           liquiditySupplyPubkey ==
             safeSlice(data, RESERVE_OFFSETS.LIQUIDITY_SUPPLY_PUBKEY,
                       RESERVE_OFFSETS.LIQUIDITY_SUPPLY_PUBKEY_END, "liquiditySupplyPubkey")
           collateralMintPubkey ==
             safeSlice(data, RESERVE_OFFSETS.COLLATERAL_MINT_PUBKEY,
                       RESERVE_OFFSETS.COLLATERAL_MINT_PUBKEY_END, "collateralMintPubkey")
           collateralSupplyPubkey ==
             safeSlice(data, RESERVE_OFFSETS.COLLATERAL_SUPPLY_PUBKEY,
                       RESERVE_OFFSETS.COLLATERAL_SUPPLY_PUBKEY_END, "collateralSupplyPubkey")
       IN  IF version.status = "throw" THEN version
           ELSE IF liquiditySupplyPubkey.status = "throw" THEN liquiditySupplyPubkey
           ELSE IF collateralMintPubkey.status = "throw" THEN collateralMintPubkey
           ELSE IF collateralSupplyPubkey.status = "throw" THEN collateralSupplyPubkey
           ELSE [status |-> "ok",
                 value |-> [version |-> version.value,
                            liquiditySupplyPubkey |-> liquiditySupplyPubkey.value,
                            collateralMintPubkey |-> collateralMintPubkey.value,
                            collateralSupplyPubkey |-> collateralSupplyPubkey.value],
                 reads |-> version.reads \o liquiditySupplyPubkey.reads
                           \o collateralMintPubkey.reads \o collateralSupplyPubkey.reads]

LENDING_MARKET_OFFSETS ==
  [VERSION |-> 0, BUMP_SEED |-> 1, OWNER |-> 2, OWNER_END |-> 34, MIN_SIZE |-> 258]

\* parseLendingMarketAccount(data)
parseLendingMarketAccount(data) ==
  IF ~IsBuffer(data)
  THEN Throw([message |-> "Invalid lending market account data: expected Buffer"])
  ELSE IF Len(data.bytes) < LENDING_MARKET_OFFSETS.MIN_SIZE
  THEN Throw([message |-> "Invalid lending market account data: expected at least",
              expected |-> LENDING_MARKET_OFFSETS.MIN_SIZE, got |-> Len(data.bytes)])
  ELSE LET version  == safeReadUInt8(data, LENDING_MARKET_OFFSETS.VERSION, "version")
           bumpSeed == safeReadUInt8(data, LENDING_MARKET_OFFSETS.BUMP_SEED, "bumpSeed")
           owner    == safeSlice(data, LENDING_MARKET_OFFSETS.OWNER,
                                 LENDING_MARKET_OFFSETS.OWNER_END, "owner")
       IN  IF version.status = "throw" THEN version
           ELSE IF bumpSeed.status = "throw" THEN bumpSeed
           ELSE IF owner.status = "throw" THEN owner
           ELSE [status |-> "ok",
                 value |-> [version |-> version.value, bumpSeed |-> bumpSeed.value,
                            owner |-> owner.value],
                 reads |-> version.reads \o bumpSeed.reads \o owner.reads]

OBLIGATION_OFFSETS ==
  [DEPOSITS_LEN |-> 202, DEPOSITS_LEN_SIZE |-> 2, DEPOSITS_START |-> 204,
   DEPOSIT_SIZE |-> 112, DEPOSIT_AMOUNT_OFFSET |-> 32, DEPOSIT_AMOUNT_SIZE |-> 8,
   MIN_SIZE_FOR_DEPOSITS_LEN |-> 204, MAX_DEPOSITS |-> 10]

\* isValidObligationBounds(data, offset, length)
isValidObligationBounds(data, offset, length) ==
  IF ~IsBuffer(data) THEN FALSE
  ELSE IF offset < 0 \/ length < 0 THEN FALSE
  ELSE offset + length <= Len(data.bytes)

\* the size the buffer must have for depositsLen entries
RequiredSizeOfFirst(depositsLen) ==
  OBLIGATION_OFFSETS.DEPOSITS_START + OBLIGATION_OFFSETS.DEPOSIT_SIZE

RequiredSize(depositsLen) ==
  OBLIGATION_OFFSETS.DEPOSITS_START + (depositsLen * OBLIGATION_OFFSETS.DEPOSIT_SIZE)

\* a faulty total: the amount of the last entry
TotalDepositedOfLast(deposits) ==
  IF deposits = <<>> THEN <<"0">> ELSE deposits[Len(deposits)].depositedAmount

\* deposits[0]?.depositedAmount || '0'; a depositedAmount is never the empty
\* string
TotalDeposited(deposits) ==
  IF deposits = <<>> THEN <<"0">> ELSE deposits[1].depositedAmount

\* parseObligation(data): it never throws
parseObligation(data) ==
  LET O == OBLIGATION_OFFSETS
      Empty(reads) == [status |-> "ok", deposits |-> <<>>,
                       totalDeposited |-> <<"0">>, reads |-> reads]
      lenRead == <<[fieldName |-> "depositsLen", offset |-> O.DEPOSITS_LEN,
                    length |-> O.DEPOSITS_LEN_SIZE]>>
      RECURSIVE Entries(_, _, _, _)
      \* the loop: i counts from 0, a failed bounds test breaks out of it
      Entries(i, depositsLen, deposits, reads) ==
        IF i >= depositsLen THEN [deposits |-> deposits, reads |-> reads]
        ELSE LET depositOffset == O.DEPOSITS_START + (i * O.DEPOSIT_SIZE)
                 amountOffset  == depositOffset + O.DEPOSIT_AMOUNT_OFFSET
             IN  IF ~isValidObligationBounds(data, amountOffset, O.DEPOSIT_AMOUNT_SIZE)
                 THEN [deposits |-> deposits, reads |-> reads]
                 ELSE LET depositedAmount ==
                            BNNorm(SubSeq(data.bytes, amountOffset + 1,
                                          amountOffset + O.DEPOSIT_AMOUNT_SIZE))
                          entry == [depositedAmount |-> BigIntToString(depositedAmount)]
                      IN  Entries(i + 1, depositsLen, Append(deposits, entry),
                                  Append(reads, [fieldName |-> "depositedAmount",
                                                 offset |-> amountOffset,
                                                 length |-> O.DEPOSIT_AMOUNT_SIZE]))
  IN  IF ~IsBuffer(data) THEN Empty(<<>>)
      ELSE IF Len(data.bytes) < O.MIN_SIZE_FOR_DEPOSITS_LEN THEN Empty(<<>>)
      ELSE IF ~isValidObligationBounds(data, O.DEPOSITS_LEN, O.DEPOSITS_LEN_SIZE)
      THEN Empty(<<>>)
      ELSE LET depositsLen == data.bytes[O.DEPOSITS_LEN + 1]
                              + 256 * data.bytes[O.DEPOSITS_LEN + 2]
           IN  IF depositsLen = 0 THEN Empty(lenRead)
               ELSE IF depositsLen > O.MAX_DEPOSITS THEN Empty(lenRead)
               ELSE IF Len(data.bytes) < RequiredSize(depositsLen) THEN Empty(lenRead)
               ELSE LET loop == Entries(0, depositsLen, <<>>, lenRead)
                    IN  [status |-> "ok", deposits |-> loop.deposits,
                         totalDeposited |-> TotalDeposited(loop.deposits),
                         reads |-> loop.reads]

\* getPosition(rpc, { obligation }); `account` is what rpc.getAccountInfo
\* answered: Null for no account, or the Buffer of the account's data
getPosition(account, obligation) ==
  IF ~IsAddress(obligation) THEN Throw([message |-> "not a base58-encoded address"])
  ELSE IF account = Null
  THEN [status |-> "ok", exists |-> FALSE, deposited |-> <<"0">>]
  ELSE LET Position(parsed) ==
             [status |-> "ok", exists |-> TRUE, deposited |-> parsed.totalDeposited,
              deposits |-> parsed.deposits]
       IN  Position(parseObligation(account))

(***************************************************************************)
(* shared/origin.js.  An origin string is kept as the parts its text is    *)
(* made of: scheme, user name, host name (its characters), port and the    *)
(* number of characters that follow; a text with no scheme is no URL.      *)
(***************************************************************************)
HostChars ==
  [h \in {"sona.fi", "app.sona.fi", "test.app.sona.fi", "evilsona.fi", "sona.fi.evil.com",
          "localhost", "127.0.0.1", "test.sona.build", "evil.com", ""} |->
     CASE h = "sona.fi" -> <<"s", "o", "n", "a", ".", "f", "i">>
       [] h = "app.sona.fi" -> <<"a", "p", "p", ".", "s", "o", "n", "a", ".", "f", "i">>
       [] h = "test.app.sona.fi" ->
            <<"t", "e", "s", "t", ".", "a", "p", "p", ".", "s", "o", "n", "a", ".", "f", "i">>
       [] h = "evilsona.fi" -> <<"e", "v", "i", "l", "s", "o", "n", "a", ".", "f", "i">>
       [] h = "sona.fi.evil.com" ->
            <<"s", "o", "n", "a", ".", "f", "i", ".", "e", "v", "i", "l", ".", "c", "o", "m">>
       [] h = "localhost" -> <<"l", "o", "c", "a", "l", "h", "o", "s", "t">>
       [] h = "127.0.0.1" -> <<"1", "2", "7", ".", "0", ".", "0", ".", "1">>
       [] h = "test.sona.build" ->
            <<"t", "e", "s", "t", ".", "s", "o", "n", "a", ".", "b", "u", "i", "l", "d">>
       [] h = "evil.com" -> <<"e", "v", "i", "l", ".", "c", "o", "m">>
       [] h = "" -> <<>>]

\* the text scheme//username@host:port followed by `rest` more characters
OriginText(scheme, username, host, port, rest) ==
  [t |-> "string", scheme |-> scheme, username |-> username,
   host |-> HostChars[host], port |-> port, rest |-> rest]

\* url.length, as far as it is compared with 0 and 2048
OriginLength(url) ==
  (IF url.scheme = "" THEN 0 ELSE 8) + Len(url.host) + url.rest

\* new URL(url): its parts, or a TypeError for a text without a scheme
ParseUrl(url) ==
  IF url.scheme = "" THEN [ok |-> FALSE]
  ELSE [ok |-> TRUE, protocol |-> url.scheme, username |-> url.username,
        hostname |-> url.host]

DEFAULT_ALLOWED_ORIGINS ==
  << OriginText("https:", "", "app.sona.fi", "", 0),
     OriginText("https:", "", "sona.fi", "", 0) >>

DEV_ALLOWED_ORIGINS ==
  << OriginText("http:", "", "localhost", "3000", 0),
     OriginText("http:", "", "localhost", "5173", 0),
     OriginText("http:", "", "127.0.0.1", "3000", 0),
     OriginText("http:", "", "127.0.0.1", "5173", 0),
     OriginText("https:", "", "test.sona.build", "", 0) >>

\* getAllowedOrigins(): env holds NODE_ENV and the ALLOWED_ORIGINS list
getAllowedOrigins(env) ==
  IF env.NODE_ENV = "production"
  THEN DEFAULT_ALLOWED_ORIGINS \o env.ALLOWED_ORIGINS
  ELSE DEFAULT_ALLOWED_ORIGINS \o DEV_ALLOWED_ORIGINS \o env.ALLOWED_ORIGINS

\* validateUrlFormat(url)
validateUrlFormat(url) ==
  IF url.t # "string"
  THEN [valid |-> FALSE, error |-> "Origin must be a string", warning |-> FALSE]
  ELSE IF OriginLength(url) = 0
  THEN [valid |-> FALSE, error |-> "Origin cannot be empty", warning |-> FALSE]
  ELSE IF OriginLength(url) > 2048
  THEN [valid |-> FALSE, error |-> "Origin too long", warning |-> FALSE]
  ELSE LET parsed == ParseUrl(url)
       IN  IF ~parsed.ok
           THEN [valid |-> FALSE, error |-> "Invalid URL format", warning |-> FALSE]
           ELSE IF parsed.protocol # "http:" /\ parsed.protocol # "https:"
           THEN [valid |-> FALSE, error |-> "Invalid protocol", warning |-> FALSE]
           ELSE IF parsed.username # ""
           THEN [valid |-> FALSE, error |-> "Origin cannot contain credentials",
                 warning |-> FALSE]
           ELSE IF parsed.hostname = <<>>
           THEN [valid |-> FALSE, error |-> "Origin must have a hostname",
                 warning |-> FALSE]
           ELSE IF \E i \in DOMAIN parsed.hostname : parsed.hostname[i] = "@"
           THEN [valid |-> FALSE, error |-> "Invalid hostname: contains @ symbol",
                 warning |-> FALSE]
           ELSE [valid |-> TRUE, error |-> "", warning |-> FALSE]

\* String.prototype.endsWith
EndsWith(s, suffix) ==
  /\ Len(suffix) <= Len(s)
  /\ SubSeq(s, Len(s) - Len(suffix) + 1, Len(s)) = suffix

\* the test of allowedOrigins.some(...)
OriginIsAllowed(origin, allowed, strictMode) ==
  IF strictMode THEN origin = allowed
  ELSE LET originUrl  == ParseUrl(origin)
           allowedUrl == ParseUrl(allowed)
       IN  /\ originUrl.ok
           /\ allowedUrl.ok
           /\ EndsWith(originUrl.hostname, allowedUrl.hostname)

\* validateOrigin(origin, { allowlist, strictMode }); an allowlist that is
\* not given is Undefined
validateOrigin(origin, allowlist, strictMode, env) ==
  LET formatCheck == validateUrlFormat(origin)
  IN  IF ~formatCheck.valid THEN formatCheck
      ELSE LET allowedOrigins == IF allowlist = Undefined THEN getAllowedOrigins(env)
                                 ELSE allowlist.items
               isAllowed == \E i \in DOMAIN allowedOrigins :
                              OriginIsAllowed(origin, allowedOrigins[i], strictMode)
           IN  IF ~isAllowed
               THEN [valid |-> FALSE, error |-> "Origin not allowed", warning |-> FALSE]
               ELSE [valid |-> TRUE, error |-> "",
                     warning |-> env.NODE_ENV = "production" /\ origin.scheme = "http:"]

\* a faulty check: the origin is not looked at
validateContextOriginUnchecked(context, env) ==
  [valid |-> context.t = "object", error |-> "Invalid context: expected object",
   warning |-> FALSE]

\* validateContextOrigin(context, operationName)
validateContextOrigin(context, env) ==
  IF context.t # "object"
  THEN [valid |-> FALSE, error |-> "Invalid context: expected object", warning |-> FALSE]
  ELSE IF context.origin = Undefined
          \/ (context.origin.t = "string" /\ OriginLength(context.origin) = 0)
  THEN [valid |-> FALSE, error |-> "Missing origin in context", warning |-> FALSE]
  ELSE validateOrigin(context.origin, Undefined, TRUE, env)

(***************************************************************************)
(* Derived addresses (@solana/addresses).  Both derivations hash their     *)
(* inputs with SHA-256, which is taken to be free of collisions: every     *)
(* combination of inputs the model uses has an address of its own.         *)
(***************************************************************************)
\* String(a).slice(0, n)
SliceOfAddress(a, n) == [of |-> a, chars |-> n]

DerivedWithSeed ==
  << [base |-> "WalletA", seed |-> SliceOfAddress(MAIN_POOL_MARKET, 32),
      program |-> SOLEND_PROGRAM_ID, address |-> "ObligationWalletA"],
     [base |-> "WalletB", seed |-> SliceOfAddress(MAIN_POOL_MARKET, 32),
      program |-> SOLEND_PROGRAM_ID, address |-> "ObligationWalletB"],
     [base |-> "WalletA", seed |-> SliceOfAddress(USDC_RESERVE, 32),
      program |-> SOLEND_PROGRAM_ID, address |-> "ReserveSeedWalletA"],
     [base |-> "WalletB", seed |-> SliceOfAddress(USDC_RESERVE, 32),
      program |-> SOLEND_PROGRAM_ID, address |-> "ReserveSeedWalletB"] >>

\* createAddressWithSeed({ baseAddress, seed, programAddress }): throws for
\* a base that is no address and for a seed of more than 32 bytes
createAddressWithSeed(baseAddress, seed, programAddress) ==
  IF ~IsAddress(baseAddress) THEN Throw([message |-> "not a base58-encoded address"])
  ELSE IF seed.chars > 32 THEN Throw([message |-> "seed exceeds the maximum length"])
  ELSE [status |-> "ok",
        value |-> DerivedWithSeed[CHOOSE i \in DOMAIN DerivedWithSeed :
                                    /\ DerivedWithSeed[i].base = baseAddress
                                    /\ DerivedWithSeed[i].seed = seed
                                    /\ DerivedWithSeed[i].program = programAddress].address]

ASSOCIATED_TOKEN_PROGRAM_ID == "ATokenGPvbdGVxr1b2hvZbsiqW5xWH25efTNsLJA8knL"

\* the associated token account of each owner for each mint
AssociatedTokenAccounts ==
  << <<"WalletA", USDC_MINT, "AtaWalletAUsdc">>, <<"WalletA", USDT_MINT, "AtaWalletAUsdt">>,
     <<"WalletA", BONK_MINT, "AtaWalletABonk">>, <<"WalletA", CUSDC_MINT, "AtaWalletACusdc">>,
     <<"WalletB", USDC_MINT, "AtaWalletBUsdc">>, <<"WalletB", USDT_MINT, "AtaWalletBUsdt">>,
     <<"WalletB", BONK_MINT, "AtaWalletBBonk">>, <<"WalletB", CUSDC_MINT, "AtaWalletBCusdc">>,
     <<"RecipientR", USDC_MINT, "AtaRecipientRUsdc">>,
     <<"RecipientR", USDT_MINT, "AtaRecipientRUsdt">>,
     <<"RecipientR", BONK_MINT, "AtaRecipientRBonk">>,
     <<"RecipientR", CUSDC_MINT, "AtaRecipientRCusdc">> >>

\* getAssociatedTokenAddress(mint, owner): the program-derived address of
\* the seeds owner, TOKEN_PROGRAM_ID, mint under the associated-token program
getAssociatedTokenAddress(mint, owner) ==
  AssociatedTokenAccounts[CHOOSE i \in DOMAIN AssociatedTokenAccounts :
                            /\ AssociatedTokenAccounts[i][1] = owner
                            /\ AssociatedTokenAccounts[i][2] = mint][3]

(***************************************************************************)
(* protocols/solend/context/index.js.  What the RPC node answers is an     *)
(* input; every request sent is recorded, in order, in `requests`.         *)
(***************************************************************************)
\* a faulty derivation: the seed is taken from another account
deriveObligationFromWalletOtherSeed(walletPubkey) ==
  createAddressWithSeed(walletPubkey, SliceOfAddress(USDC_RESERVE, 32), SOLEND_PROGRAM_ID)

\* deriveObligationFromWallet(walletPubkey)
deriveObligationFromWallet(walletPubkey) ==
  createAddressWithSeed(walletPubkey, SliceOfAddress(MAIN_POOL_MARKET, 32),
                        SOLEND_PROGRAM_ID)

\* a function that threw after sending the requests
ThrowAfter(error, requests) == [status |-> "throw", error |-> error, requests |-> requests]

\* prepareSolendContext({ rpc, context, params })
prepareSolendContext(rpc, context, env) ==
  LET originValidation == validateContextOrigin(context, env)
      Fetched(obligationAddress, sent) ==
        [status |-> "ok",
         value |-> [lifetime |-> rpc.lifetime,
                    userUsdcAta |-> getAssociatedTokenAddress(USDC_MINT, context.wallet),
                    userCusdcAta |-> getAssociatedTokenAddress(CUSDC_MINT, context.wallet),
                    usdcAtaExists |-> rpc.usdcAtaExists,
                    cusdcAtaExists |-> rpc.cusdcAtaExists,
                    obligationAccount |-> obligationAddress,
                    obligationExists |-> rpc.obligationExists,
                    accounts |-> [reserve |-> [address |-> USDC_RESERVE,
                                               data |-> rpc.reserve.bytes],
                                  lendingMarket |-> [address |-> MAIN_POOL_MARKET,
                                                     data |-> rpc.lendingMarket.bytes]]],
         requests |-> sent \o << [method |-> "getAccountInfo", of |-> obligationAddress] >>]
      Derive(obligation, sent) ==
        IF obligation.status = "throw" THEN ThrowAfter(obligation.error, sent)
        ELSE Fetched(obligation.value, sent)
      Parsed(market, sent) ==
        IF market.status = "throw" THEN ThrowAfter(market.error, sent)
        ELSE Derive(createAddressWithSeed(context.wallet,
                                          SliceOfAddress(MAIN_POOL_MARKET, 32),
                                          SOLEND_PROGRAM_ID),
                    sent \o << [method |-> "getMultipleAccounts",
                                of |-> << getAssociatedTokenAddress(USDC_MINT, context.wallet),
                                          getAssociatedTokenAddress(CUSDC_MINT,
                                                                    context.wallet) >>] >>)
      Answered(sent) ==
        IF rpc.reserve = Null
        THEN ThrowAfter([message |-> "Solend reserve account not found"], sent)
        ELSE IF rpc.lendingMarket = Null
        THEN ThrowAfter([message |-> "Solend lending market account not found"], sent)
        ELSE Parsed(parseLendingMarketAccount(rpc.lendingMarket), sent)
  IN  IF ~originValidation.valid
      THEN ThrowAfter([message |-> originValidation.error], <<>>)
      ELSE IF ~IsAddress(context.wallet)
      THEN ThrowAfter([message |-> "not a base58-encoded address"], <<>>)
      ELSE Answered(<< [method |-> "getLatestBlockhash", of |-> "finalized"],
                       [method |-> "getAccountInfo", of |-> USDC_RESERVE],
                       [method |-> "getAccountInfo", of |-> MAIN_POOL_MARKET] >>)

(***************************************************************************)
(* protocols/wallet/context/index.js                                       *)
(***************************************************************************)
\* { lifetime }, or the context with the two token accounts; a property
\* that is not set reads as undefined
TransferContext(lifetime, senderTokenAccount, recipientTokenAccount) ==
  [lifetime |-> lifetime, senderTokenAccount |-> senderTokenAccount,
   recipientTokenAccount |-> recipientTokenAccount]

\* prepareTransferContext({ rpc, context, params })
prepareTransferContext(rpc, context, params, env) ==
  LET originValidation == validateContextOrigin(context, env)
      WithAccounts(mint, sent) ==
        IF ~IsAddress(mint) \/ ~IsAddress(context.wallet) \/ ~IsAddress(params.recipient)
        THEN ThrowAfter([message |-> "not a base58-encoded address"], sent)
        ELSE [status |-> "ok",
              value |-> TransferContext(rpc.lifetime,
                                        getAssociatedTokenAddress(mint, context.wallet),
                                        getAssociatedTokenAddress(mint, params.recipient)),
              requests |-> sent]
      OfToken(found, sent) ==
        IF ~found.ok THEN ThrowAfter([message |-> "Unknown token"], sent)
        ELSE IF found.token.isNative
        THEN [status |-> "ok", value |-> TransferContext(rpc.lifetime, Absent, Absent),
              requests |-> sent]
        ELSE WithAccounts(found.token.mint, sent)
      Prepare(sent) ==
        IF ~Falsy(params.mint) \/ ~Falsy(params.symbol)
        THEN IF ~Falsy(params.symbol) THEN OfToken(getToken(params.symbol), sent)
             ELSE WithAccounts(params.mint, sent)
        ELSE [status |-> "ok", value |-> TransferContext(rpc.lifetime, Absent, Absent),
              requests |-> sent]
  IN  IF ~originValidation.valid
      THEN ThrowAfter([message |-> originValidation.error], <<>>)
      ELSE IF params = Undefined
      THEN ThrowAfter([message |-> "TypeError: cannot destructure params"], <<>>)
      ELSE Prepare(<< [method |-> "getLatestBlockhash", of |-> "finalized"] >>)

(***************************************************************************)
(* protocols/jupiter/context/index.js.  The answer of the swap API's       *)
(* /order endpoint is an input.                                            *)
(***************************************************************************)
\* getTokenDecimals(mint)
getTokenDecimals(mint) ==
  CASE mint = USDC_MINT -> 6
    [] mint = USDT_MINT -> 6
    [] mint = BONK_MINT -> 5
    [] OTHER -> 9

\* !orderData.routePlan
RoutePlanFalsy(routePlan) == routePlan = Undefined \/ routePlan = Null

\* the checks of orderData.routePlan: the message of the error, or "" for none
RoutePlanError(routePlan) ==
  IF RoutePlanFalsy(routePlan) THEN ""
  ELSE IF routePlan.t # "array"
  THEN "Jupiter API returned invalid routePlan: expected array"
  ELSE IF \E i \in DOMAIN routePlan.items : routePlan.items[i].t # "object"
  THEN "Jupiter API route is invalid: expected object"
  ELSE IF \E i \in DOMAIN routePlan.items :
            /\ routePlan.items[i].marketInfos # Undefined
            /\ routePlan.items[i].marketInfos.t # "array"
  THEN "Jupiter API route marketInfos must be an array"
  ELSE ""

\* the checks of orderData.transaction: the message of the error, or "" for none
OrderTransactionError(orderData) ==
  IF TransactionFalsy(orderData.transaction)
  THEN CASE orderData.errorCode = 1 -> "Insufficient funds for swap"
         [] orderData.errorCode = 2 -> "Top up SOL for gas fees"
         [] orderData.errorCode = 3 ->
              "Minimum swap amount not met for gasless transaction"
         [] OTHER -> "No transaction returned from Jupiter order"
  ELSE IF orderData.transaction.t # "string"
  THEN "Jupiter API returned invalid transaction: expected non-empty base64 string"
  ELSE IF Base64DecodedLength(orderData.transaction.b64) = 0
  THEN "Jupiter API returned invalid base64 transaction: Decoded transaction is empty"
  ELSE IF Base64DecodedLength(orderData.transaction.b64) < 64
  THEN "Transaction too small"
  ELSE IF Base64DecodedLength(orderData.transaction.b64) > 1232
  THEN "Transaction too large"
  ELSE ""

\* orderData.routePlan.map(plan => ...): a TypeError when there is no routePlan
MarketInfos(routePlan) ==
  IF RoutePlanFalsy(routePlan)
  THEN [ok |-> FALSE,
        error |-> "TypeError: Cannot read properties of undefined (reading 'map')"]
  ELSE [ok |-> TRUE,
        value |-> [i \in DOMAIN routePlan.items |->
                     [id |-> routePlan.items[i].ammKey,
                      percent |-> routePlan.items[i].percent]]]

\* prepareJupiterSwapContext({ rpc, context, params })
prepareJupiterSwapContext(rpc, orderData, context, params, env) ==
  LET originValidation == validateContextOrigin(context, env)
      Finish(marketInfos, sent) ==
        IF ~marketInfos.ok THEN ThrowAfter([message |-> marketInfos.error], sent)
        ELSE [status |-> "ok",
              value |-> [lifetime |-> rpc.lifetime,
                         userInputAta |->
                           getAssociatedTokenAddress(params.inputMint, context.wallet),
                         userOutputAta |->
                           getAssociatedTokenAddress(params.outputMint, context.wallet),
                         route |-> [inputMint |-> params.inputMint,
                                    outputMint |-> params.outputMint,
                                    marketInfos |-> marketInfos.value],
                         transaction |-> orderData.transaction,
                         requestId |-> orderData.requestId],
              requests |-> sent]
      Validate(sent) ==
        IF orderData.t # "object"
        THEN ThrowAfter([message |-> "Jupiter API returned invalid response: expected object"],
                        sent)
        ELSE IF orderData.error
        THEN ThrowAfter([message |-> "Jupiter order error"], sent)
        ELSE IF OrderTransactionError(orderData) # ""
        THEN ThrowAfter([message |-> OrderTransactionError(orderData)], sent)
        ELSE IF RoutePlanError(orderData.routePlan) # ""
        THEN ThrowAfter([message |-> RoutePlanError(orderData.routePlan)], sent)
        ELSE Finish(MarketInfos(orderData.routePlan), sent)
      Order(amountLamports, sent) ==
        IF ~amountLamports.ok
        THEN ThrowAfter([message |-> "Amount conversion failed"], sent)
        ELSE Validate(sent \o << [method |-> "fetch", of |-> "/order"] >>)
      Convert(sent) ==
        IF ~IsAddress(params.inputMint) \/ ~IsAddress(params.outputMint)
        THEN ThrowAfter([message |-> "not a base58-encoded address"], sent)
        ELSE Order(safeAmountToRaw(params.amount, JSInt(getTokenDecimals(params.inputMint))),
                   sent)
  IN  IF ~originValidation.valid
      THEN ThrowAfter([message |-> originValidation.error], <<>>)
      ELSE IF params = Undefined
      THEN ThrowAfter([message |-> "TypeError: cannot destructure params"], <<>>)
      ELSE IF ~IsAddress(context.wallet)
      THEN ThrowAfter([message |-> "not a base58-encoded address"], <<>>)
      ELSE Convert(<< [method |-> "getLatestBlockhash", of |-> "finalized"] >>)

(***************************************************************************)
(* protocols/wallet/query/balance.js.  A query is in flight from its call  *)
(* until the promise it returned settles: `pending` holds the symbols whose *)
(* RPC request has not been answered yet, and the answers arrive in any    *)
(* order.  What the RPC node answers for a token is an input: "fail" (the  *)
(* request is rejected), "none" (no token account; a balance of zero for   *)
(* the native asset) or "some" (a balance).                                *)
(***************************************************************************)
\* getSupportedTokens(): Object.keys(TOKENS)
getSupportedTokens == [i \in DOMAIN TOKENS |-> TOKENS[i].symbol]

\* Number.prototype.toString(): the text is kept as the Number it writes
NumberText(number) == [t |-> "string", number |-> number]

\* the lamports getBalance answers with
BalanceValue(answer) == IF answer = "some" THEN BNFromNat(1500000000) ELSE <<>>

\* what _getTokenBalance returns once the RPC node has answered
TokenBalance(token, answer) ==
  IF token.isNative
  THEN LET Native(amountRaw) ==
             [symbol |-> token.symbol, mint |-> Absent,
              amount |-> NumberText(
                           DblFromRatio(FALSE,
                                        NumberMagnitude(
                                          DblFromRatio(FALSE, BNFromDigits(amountRaw),
                                                       BNFromNat(1))),
                                        BNPow10(token.decimals))),
              amountRaw |-> amountRaw, decimals |-> token.decimals]
       IN  Native(BigIntToString(BalanceValue(answer)))
  ELSE IF answer = "none"
  THEN [symbol |-> token.symbol, mint |-> token.mint, amount |-> <<"0">>,
        amountRaw |-> <<"0">>, decimals |-> token.decimals]
  ELSE [symbol |-> token.symbol, mint |-> token.mint, amount |-> <<"2", ".", "5">>,
        amountRaw |-> <<"2", "5", "0", "0", "0", "0", "0">>, decimals |-> token.decimals]

\* _getTokenBalance up to its first await: getToken(symbol) and
\* address(walletAddress) throw before any request is sent
FetchStarts(walletAddress, symbol) == getToken(symbol).ok /\ IsAddress(walletAddress)

\* a faulty store: every balance is added, also under a key that is there
AppendBalance(balances, symbol, balance) ==
  Append(balances, [key |-> symbol, value |-> balance])

\* balances[symbol] = balance; the properties of an object keep the order
\* in which they were first set
AssignBalance(balances, symbol, balance) ==
  IF \E i \in DOMAIN balances : balances[i].key = symbol
  THEN [i \in DOMAIN balances |->
          IF balances[i].key = symbol THEN [key |-> symbol, value |-> balance]
          ELSE balances[i]]
  ELSE Append(balances, [key |-> symbol, value |-> balance])

\* the symbols getTokenBalance fetches
FetchedSymbols(symbols) ==
  IF symbols # Undefined /\ Len(symbols.items) >= 1 THEN symbols.items
  ELSE getSupportedTokens

\* symbols && symbols.length === 1
SingleQuery(symbols) == symbols # Undefined /\ Len(symbols.items) = 1

(***************************************************************************)
(* The calls.  Inputs are drawn from small sets that hold the ordinary     *)
(* cases and the edges: amounts at and beyond the 64-bit and safe-integer  *)
(* limits, absent and malformed addresses, unknown names, long memos.      *)
(***************************************************************************)
MaxMemoBlocks == 2
MaxUlps == 1
MaxSizeDelta == 1

Lifetime ==
  [blockhash |-> "EkSnNWid2cvwEVnVx9aBqawnmiCNiDgp3gUdkDPTKN1N",
   lastValidBlockHeight |-> 123456789]

\* raw amounts handed to the Solend builders
SolendAmounts ==
  { JSInt(0), JSInt(1), JSInt(100000), JSInt(1000000), JSInt(10000000),
    JSNumber(FALSE, MAX_SAFE_INTEGER, 0),
    JSBigInt(FALSE, BNSub(BNPow2(64), <<1>>)),
    DblNorm(FALSE, BNPow2(64), 0),
    JSBigInt(FALSE, BNAdd(BNPow2(64), <<5>>)),
    JSNumber(TRUE, <<1>>, 0),
    Decimal(<<15>>, 1),
    JSNaN, Undefined }

SolendParams == [operation : {Absent}, amount : SolendAmounts]

Contexts == [wallet : {"WalletA", "WalletB", BadAddress, Absent}]

Slot(proper) == {proper, "WalletA", Absent, BadAddress}

SolendPrepared ==
  [lifetime : {Lifetime}, userUsdcAta : Slot("UserUsdcAta"),
   userCusdcAta : Slot("UserCusdcAta"),
   obligationAccount : Slot("ObligationAccount")]

\* human amounts handed to the transfer builder
TransferAmounts ==
  { JSInt(1), JSInt(100), JSInt(0), Decimal(<<5>>, 1),
    Decimal(<<199, 9999, 9999>>, 10),
    MAX_SAFE_AMOUNTS[10], JSInt(10000000),
    JSNumber(TRUE, <<1>>, 0), JSNaN, JSInfinity(FALSE), Undefined }

Memos ==
  {Undefined}
  \cup [t : {"string"}, units : {0}, width : {1}]
  \cup [t : {"string"},
        units : {1} \cup {283 * k : k \in 1..MaxMemoBlocks}, width : {1, 3}]

TransferParties ==
  { <<"WalletA", "RecipientR">>, <<"WalletA", "WalletA">>,
    <<BadAddress, "RecipientR">>, <<"WalletA", BadAddress>> }


TransferPrepared ==
  { [lifetime |-> Lifetime, senderTokenAccount |-> pr[1],
     recipientTokenAccount |-> pr[2]] :
    pr \in { <<"SenderTokenAccount", "RecipientTokenAccount">>,
             <<Absent, Absent>>, <<Absent, "RecipientTokenAccount">>,
             <<"SenderTokenAccount", Absent>>,
             <<BadAddress, "RecipientTokenAccount">> } }

TransferParams(recipients, operations) ==
  [recipient : recipients, amount : TransferAmounts,
   mint : {Absent, USDC_MINT, USDT_MINT, "UnknownMint111111111111111111111111111111"},
   symbol : {Absent, "", "USDC", "usdc", "SOL", "DOGE"},
   memo : Memos, operation : operations]

\* what the swap API returned: nothing, something that is no string, or the
\* base64 text of a transaction of some size that holds some number of
\* instructions, which the builder never decodes
OpaqueTransaction(bytes, instructionCount) ==
  [t |-> "string", b64 |-> Base64Chars(bytes),
   tx |-> [instructions |-> <<>> \o [i \in 1..instructionCount |-> "opaque"]]]

JupiterTransactions ==
  {Undefined, [t |-> "object"], OpaqueTransaction(0, 0), OpaqueTransaction(500, 3),
   OpaqueTransaction(134, 0), OpaqueTransaction(500, MAX_INSTRUCTIONS),
   OpaqueTransaction(500, MAX_INSTRUCTIONS + 1)}
  \cup {OpaqueTransaction(MAX_TRANSACTION_SIZE - k, 3) : k \in 0..MaxSizeDelta}
  \cup {OpaqueTransaction(MAX_TRANSACTION_SIZE + k, 3) : k \in 1..MaxSizeDelta + 1}


JupiterPrepared ==
  [transaction : JupiterTransactions,
   route : {[inputMint |-> USDC_MINT, outputMint |-> USDT_MINT], Undefined},
   fees : {[signatureFeeLamports |-> 5000, feeBps |-> 10], Undefined},
   router : {"iris"}, requestId : {"req-1"}]

JupiterParams == [operation : {"swap", Absent, "limit"}]

\* no call is in progress
Idle == call.fn = "none"

CallBuildDeposit ==
  /\ Idle
  /\ \E params \in SolendParams, context \in Contexts, prepared \in SolendPrepared :
       /\ call' = [fn |-> "buildDepositTransaction", protocol |-> "solend",
                   context |-> context, params |-> params, prepared |-> prepared]
       /\ result' = buildDepositTransaction(params, context, prepared)

CallBuildWithdraw ==
  /\ Idle
  /\ \E params \in SolendParams, context \in Contexts, prepared \in SolendPrepared :
       /\ call' = [fn |-> "buildWithdrawTransaction", protocol |-> "solend",
                   context |-> context, params |-> params, prepared |-> prepared]
       /\ result' = buildWithdrawTransaction(params, context, prepared)

CallBuildTransfer ==
  /\ Idle
  /\ \E parties \in TransferParties, prepared \in TransferPrepared :
      \E params \in TransferParams({parties[2]}, {"transfer"}) :
      LET context == [wallet |-> parties[1]]
      IN  /\ call' = [fn |-> "buildTransferTransaction", protocol |-> "wallet",
                      context |-> context, params |-> params, prepared |-> prepared]
          /\ result' = buildTransferTransaction(params, context, prepared)

CallBuildJupiterSwap ==
  /\ Idle
  /\ \E params \in JupiterParams, context \in Contexts, prepared \in JupiterPrepared :
       /\ call' = [fn |-> "buildJupiterSwapTransaction", protocol |-> "jupiter",
                   context |-> context, params |-> params, prepared |-> prepared]
       /\ result' = buildJupiterSwapTransaction(params, context, prepared)

\* buildProtocolTransaction, called with each protocol's kind of arguments and
\* with protocol ids that are not registered
DispatchParams(protocol) ==
  {Undefined}
  \cup (IF protocol = "solend"
        THEN [operation : {Absent, "", "deposit", "withdraw", "borrow"},
              amount : {JSInt(1000000), JSNumber(TRUE, <<1>>, 0)}]
        ELSE IF protocol = "wallet"
        THEN [recipient : {"RecipientR"}, amount : {JSInt(1), JSNaN},
              mint : {Absent, USDT_MINT}, symbol : {Absent, "USDC", "DOGE"},
              memo : {Undefined, [t |-> "string", units |-> 1, width |-> 1]},
              operation : {Absent, "", "transfer", "swap", "deposit"}]
        ELSE [operation : {"swap", Absent, "deposit", "transfer"}])

DispatchPrepared(protocol) ==
  IF protocol = "wallet" THEN TransferPrepared
  ELSE IF protocol = "jupiter" THEN JupiterPrepared
  ELSE [lifetime : {Lifetime}, userUsdcAta : {"UserUsdcAta"},
        userCusdcAta : {"UserCusdcAta"},
        obligationAccount : {"ObligationAccount", Absent}]

CallBuildProtocolTransaction ==
  /\ Idle
  /\ \E protocol \in builders \cup {"marinade", "", "Solend"},
        context \in [wallet : {"WalletA", BadAddress}] :
       \E params \in DispatchParams(protocol),
          prepared \in DispatchPrepared(protocol) :
         /\ call' = [fn |-> "buildProtocolTransaction", protocol |-> protocol,
                     context |-> context, params |-> params,
                     prepared |-> prepared]
         /\ result' = buildProtocolTransaction(protocol, context, params, prepared)

CallIsSupportedProtocol ==
  /\ Idle
  /\ \E id \in builders \cup {"marinade", "", "Solend", "unknown"} :
       /\ call' = [fn |-> "isSupportedProtocol", id |-> id]
       /\ result' = [status |-> "ok", value |-> isSupportedProtocol(id),
                     ids |-> getSupportedProtocolIds]

\* the caller takes the result; the next call starts from nothing, as no
\* builder keeps anything between calls
Return ==
  /\ ~Idle
  /\ call' = [fn |-> "none"]
  /\ result' = [status |-> "none"]

Init ==
  /\ call = [fn |-> "none"]
  /\ result = [status |-> "none"]

Next ==
  \/ CallBuildDeposit
  \/ CallBuildWithdraw
  \/ CallBuildTransfer
  \/ CallBuildJupiterSwap
  \/ CallBuildProtocolTransaction
  \/ CallIsSupportedProtocol
  \/ Return

Spec == Init /\ [][Next]_vars

(***************************************************************************)
(* The amount codec on its own: safeAmountToRaw called with amounts at,    *)
(* just below and just above each maxSafeAmount, and with every kind of    *)
(* value that is no amount or no decimals.                                 *)
(***************************************************************************)
\* the double k units in the last place away from a positive finite v
DblUlps(v, k) ==
  LET shift == 53 - BNBitLen(v.m)
      m53   == BNShl(v.m, shift)
      moved == IF k >= 0 THEN BNAdd(m53, BNFromNat(k)) ELSE BNSub(m53, BNFromNat(-k))
  IN  DblRound(FALSE, moved, v.e - shift, FALSE)

CodecAmounts ==
  { DblUlps(MAX_SAFE_AMOUNTS[d + 1], k) : d \in 0..18, k \in (-MaxUlps)..MaxUlps }
  \cup { JSInt(0), JSNumber(TRUE, <<>>, 0), JSInt(1), Decimal(<<15>>, 1),
         Decimal(<<435>>, 2), JSNumber(TRUE, <<1>>, 0), DblFromRatio(TRUE, <<1>>, BNPow10(4)),
         Decimal(<<3>>, 1), Decimal(<<199, 9999, 9999>>, 10),
         JSNaN, JSInfinity(FALSE), JSInfinity(TRUE), Undefined,
         [t |-> "string"], JSBigInt(FALSE, <<1>>) }

CodecDecimals ==
  { JSInt(d) : d \in 0..18 }
  \cup { JSNumber(TRUE, <<1>>, 0), JSInt(19), Decimal(<<15>>, 1), JSNaN, Undefined }

\* a codec function returns its value or throws its error
CodecResult(r) ==
  IF r.ok THEN [status |-> "ok", value |-> r.value] ELSE Throw(r.error)

CallSafeAmountToRaw ==
  /\ Idle
  /\ \E amount \in CodecAmounts, decimals \in CodecDecimals :
       /\ call' = [fn |-> "safeAmountToRaw", amount |-> amount, decimals |-> decimals]
       /\ result' = CodecResult(safeAmountToRaw(amount, decimals))

\* raw amounts: big integers, Numbers, strings and a value that is none of
\* them
CodecRaws ==
  { JSBigInt(FALSE, BNFromDecimal(cs)) :
      cs \in { <<0>>, <<1>>, <<3>>, <<5>>, <<435>>, <<1200>>, <<1, 2345, 6789>>,
               <<19, 9999, 9999>>, <<9007, 1992, 5474, 0991>>,
               <<9007, 1992, 5474, 0992>>, <<100, 0000, 0000, 0000, 0000>>,
               <<99, 9999, 9999, 9999, 9999, 9999, 9999, 9999>> } }
  \cup { JSBigInt(TRUE, <<1>>),
         JSInt(0), JSNumber(TRUE, <<>>, 0), JSInt(435), JSInt(1000000),
         JSNumber(FALSE, MAX_SAFE_INTEGER, 0), JSNumber(FALSE, <<1>>, 53),
         Decimal(<<15>>, 1), JSNumber(TRUE, <<1>>, 0), JSNaN, JSInfinity(FALSE),
         Undefined }
  \cup { [t |-> "string", text |-> cs] :
           cs \in { <<"4", "3", "5">>, <<"1", "0", "0", "0", "0", "0", "0">>, <<>>,
                    <<"-", "1">>, <<"1", ".", "5">>, <<"a">> } }

CallSafeRawToAmount ==
  /\ Idle
  /\ \E rawAmount \in CodecRaws, decimals \in CodecDecimals :
       /\ call' = [fn |-> "safeRawToAmount", rawAmount |-> rawAmount,
                   decimals |-> decimals]
       /\ result' = CodecResult(safeRawToAmount(rawAmount, decimals))

\* the way back: the string safeRawToAmount returned is parsed and converted
\* with the same decimals
CallParseBack ==
  /\ call.fn = "safeRawToAmount"
  /\ result.status = "ok"
  /\ call' = [fn |-> "safeAmountToRaw", amount |-> ParseFloat(result.value),
              decimals |-> call.decimals, rawAmount |-> call.rawAmount]
  /\ result' = CodecResult(safeAmountToRaw(ParseFloat(result.value), call.decimals))

NextAmount ==
  \/ CallSafeAmountToRaw
  \/ CallSafeRawToAmount
  \/ CallParseBack
  \/ Return

SpecAmount == Init /\ [][NextAmount]_vars

(***************************************************************************)
(* The account parsers on their own: each parser, and each checked read    *)
(* at the offsets the parsers use, called with values that are no Buffer   *)
(* and with Buffers whose lengths lie at and around every size the code    *)
(* tests for.                                                              *)
(***************************************************************************)
\* a Buffer of len bytes whose 16-bit little-endian word at 202 is count
AccountBuffer(len, count, seed) ==
  [t |-> "buffer",
   bytes |-> <<>> \o [i \in 1..len |->
                        IF i = OBLIGATION_OFFSETS.DEPOSITS_LEN + 1 THEN count % 256
                        ELSE IF i = OBLIGATION_OFFSETS.DEPOSITS_LEN + 2 THEN count \div 256
                        ELSE (i * seed) % 256]]

AccountLengths ==
  {0, 1, 33, 34, 285}
  \cup {m + k : m \in {RESERVE_OFFSETS.MIN_SIZE, LENDING_MARKET_OFFSETS.MIN_SIZE,
                       OBLIGATION_OFFSETS.MIN_SIZE_FOR_DEPOSITS_LEN},
                k \in {-1, 0, 1}}
  \cup {RequiredSize(c) + k : c \in 1..OBLIGATION_OFFSETS.MAX_DEPOSITS + 1, k \in {-1, 0}}
  \cup {RequiredSize(c) + OBLIGATION_OFFSETS.DEPOSIT_AMOUNT_OFFSET
          + OBLIGATION_OFFSETS.DEPOSIT_AMOUNT_SIZE + k : c \in 0..1, k \in {-1, 0}}

DeclaredCounts == {0, 1, 2, 3, OBLIGATION_OFFSETS.MAX_DEPOSITS,
                   OBLIGATION_OFFSETS.MAX_DEPOSITS + 1, 256, 65535}

AccountData ==
  {Undefined, Null, [t |-> "string", text |-> <<"a">>],
   [t |-> "Uint8Array", bytes |-> <<1, 2, 3>>]}
  \cup {AccountBuffer(len, count, seed) :
          len \in AccountLengths, count \in DeclaredCounts, seed \in {1, 3}}

\* the reads the reserve and lending-market parsers make
ByteFields ==
  {[fieldName |-> "version", offset |-> RESERVE_OFFSETS.VERSION],
   [fieldName |-> "bumpSeed", offset |-> LENDING_MARKET_OFFSETS.BUMP_SEED]}

SliceFields ==
  {[fieldName |-> "liquiditySupplyPubkey",
    start |-> RESERVE_OFFSETS.LIQUIDITY_SUPPLY_PUBKEY,
    end |-> RESERVE_OFFSETS.LIQUIDITY_SUPPLY_PUBKEY_END],
   [fieldName |-> "collateralMintPubkey",
    start |-> RESERVE_OFFSETS.COLLATERAL_MINT_PUBKEY,
    end |-> RESERVE_OFFSETS.COLLATERAL_MINT_PUBKEY_END],
   [fieldName |-> "collateralSupplyPubkey",
    start |-> RESERVE_OFFSETS.COLLATERAL_SUPPLY_PUBKEY,
    end |-> RESERVE_OFFSETS.COLLATERAL_SUPPLY_PUBKEY_END],
   [fieldName |-> "owner", start |-> LENDING_MARKET_OFFSETS.OWNER,
    end |-> LENDING_MARKET_OFFSETS.OWNER_END]}

CallParseReserveAccount ==
  /\ Idle
  /\ \E data \in AccountData :
       /\ call' = [fn |-> "parseReserveAccount", data |-> data]
       /\ result' = parseReserveAccount(data)

CallParseLendingMarketAccount ==
  /\ Idle
  /\ \E data \in AccountData :
       /\ call' = [fn |-> "parseLendingMarketAccount", data |-> data]
       /\ result' = parseLendingMarketAccount(data)

CallParseObligation ==
  /\ Idle
  /\ \E data \in AccountData :
       /\ call' = [fn |-> "parseObligation", data |-> data]
       /\ result' = parseObligation(data)

CallGetPosition ==
  /\ Idle
  /\ \E account \in {Null} \cup {data \in AccountData : IsBuffer(data)},
        obligation \in {"ObligationWalletA", BadAddress} :
       /\ call' = [fn |-> "getPosition", account |-> account, obligation |-> obligation]
       /\ result' = getPosition(account, obligation)

CallSafeReadUInt8 ==
  /\ Idle
  /\ \E data \in AccountData, field \in ByteFields :
       /\ call' = [fn |-> "safeReadUInt8", data |-> data, fieldName |-> field.fieldName,
                   offset |-> field.offset, length |-> 1]
       /\ result' = safeReadUInt8(data, field.offset, field.fieldName)

CallSafeSlice ==
  /\ Idle
  /\ \E data \in AccountData, field \in SliceFields :
       /\ call' = [fn |-> "safeSlice", data |-> data, fieldName |-> field.fieldName,
                   offset |-> field.start, length |-> field.end - field.start]
       /\ result' = safeSlice(data, field.start, field.end, field.fieldName)

\* the fields of a parser's record that are Buffers
BufferFields(fn) ==
  IF fn = "parseReserveAccount"
  THEN {"liquiditySupplyPubkey", "collateralMintPubkey", "collateralSupplyPubkey"}
  ELSE {"owner"}

\* a Buffer after the byte at `index` of the caller's memory was written
AfterMemoryWrite(buffer, index, byte) ==
  IF /\ buffer.memory.of = "data"
     /\ index >= buffer.memory.byteOffset
     /\ index < buffer.memory.byteOffset + Len(buffer.bytes)
  THEN [buffer EXCEPT !.bytes[index - buffer.memory.byteOffset + 1] = byte]
  ELSE buffer

\* the parser's record after that write
RecordAfterMemoryWrite(fn, record, index, byte) ==
  [f \in DOMAIN record |->
     IF f \in BufferFields(fn) THEN AfterMemoryWrite(record[f], index, byte)
     ELSE record[f]]

Parsed ==
  /\ call.fn \in {"parseReserveAccount", "parseLendingMarketAccount"}
  /\ result.status = "ok"
  /\ "wrote" \notin DOMAIN call

\* after the parser has returned, the caller writes one byte of the buffer
\* it had passed: data.writeUInt8(byte, index)
WriteSourceBuffer ==
  /\ Parsed
  /\ \E index \in {0, 2, 33, 74, 105, 221, 253, 284, 285} :
       LET byte == (call.data.bytes[index + 1] + 1) % 256
       IN  /\ call' = [fn |-> call.fn,
                       data |-> [call.data EXCEPT !.bytes[index + 1] = byte],
                       wrote |-> "source", passed |-> call.data,
                       returned |-> result.value]
           /\ result' = [result EXCEPT
                           !.value = RecordAfterMemoryWrite(call.fn, @, index, byte)]

\* after the parser has returned, the caller writes one byte of a Buffer of
\* the returned record: record[field].writeUInt8(byte, index)
WriteReturnedField ==
  /\ Parsed
  /\ \E field \in BufferFields(call.fn), index \in {0, 31} :
       LET buffer == result.value[field]
           byte   == (buffer.bytes[index + 1] + 1) % 256
           shared == buffer.memory.of = "data"
           at     == buffer.memory.byteOffset + index
       IN  /\ call' = [fn |-> call.fn,
                       data |-> IF shared THEN [call.data EXCEPT !.bytes[at + 1] = byte]
                                ELSE call.data,
                       wrote |-> "field", passed |-> call.data,
                       returned |-> result.value]
           /\ result' = [result EXCEPT
                           !.value = IF shared
                                     THEN RecordAfterMemoryWrite(call.fn, @, at, byte)
                                     ELSE [@ EXCEPT ![field].bytes[index + 1] = byte]]

NextParse ==
  \/ WriteSourceBuffer
  \/ WriteReturnedField
  \/ CallParseReserveAccount
  \/ CallParseLendingMarketAccount
  \/ CallParseObligation
  \/ CallGetPosition
  \/ CallSafeReadUInt8
  \/ CallSafeSlice
  \/ Return

SpecParse == Init /\ [][NextParse]_vars

(***************************************************************************)
(* The validators on their own: validateTransactionSize called with the    *)
(* base64 text of transactions of every size around the warning threshold  *)
(* and the limit, and with values that are no string; and                  *)
(* validateInstructionCount called with every count from below zero to     *)
(* above the limit.                                                        *)
(***************************************************************************)
ValidatorSizes ==
  {0, 500, WARNING_THRESHOLD, WARNING_THRESHOLD + 1}
  \cup {MAX_TRANSACTION_SIZE + k : k \in -20 - MaxSizeDelta..20 + MaxSizeDelta}

ValidatorCounts == -2..MAX_INSTRUCTIONS + 3

CallValidateTransactionSize ==
  /\ Idle
  /\ \/ \E bytes \in ValidatorSizes :
          LET wireTransaction == [t |-> "string", b64 |-> Base64Chars(bytes)]
          IN  /\ call' = [fn |-> "validateTransactionSize", bytes |-> bytes,
                          wireTransaction |-> wireTransaction]
              /\ result' = [status |-> "ok",
                            validation |-> validateTransactionSize(wireTransaction)]
     \/ \E wireTransaction \in {Undefined, [t |-> "object"]} :
          /\ call' = [fn |-> "validateTransactionSize", bytes |-> 0,
                      wireTransaction |-> wireTransaction]
          /\ result' = [status |-> "ok",
                        validation |-> validateTransactionSize(wireTransaction)]

CallValidateInstructionCount ==
  /\ Idle
  /\ \E instructionCount \in ValidatorCounts :
       /\ call' = [fn |-> "validateInstructionCount",
                   instructionCount |-> instructionCount]
       /\ result' = [status |-> "ok",
                     validation |-> validateInstructionCount(instructionCount)]

NextValidate ==
  \/ CallValidateTransactionSize
  \/ CallValidateInstructionCount
  \/ Return

SpecValidate == Init /\ [][NextValidate]_vars

(***************************************************************************)
(* Context preparation on the host: the three prepare functions and the    *)
(* obligation derivation, called with contexts that are missing, lack an   *)
(* origin or carry an origin on or off the allow-list, under both values   *)
(* of NODE_ENV, and with every answer the RPC node and the swap API can    *)
(* give.  A caller may keep the address of one derivation while it makes   *)
(* the next.                                                               *)
(***************************************************************************)
Environments ==
  [NODE_ENV : {"production", "development"},
   ALLOWED_ORIGINS : {<<>>, << OriginText("https:", "", "evil.com", "", 0) >>}]

ContextOrigins ==
  { Undefined, [t |-> "number"],
    OriginText("", "", "", "", 0),
    OriginText("", "", "sona.fi", "", 0),
    OriginText("https:", "", "app.sona.fi", "", 0),
    OriginText("https:", "", "sona.fi", "", 0),
    OriginText("https:", "", "sona.fi", "", 2048),
    OriginText("http:", "", "sona.fi", "", 0),
    OriginText("https:", "user", "sona.fi", "", 0),
    OriginText("https:", "", "test.app.sona.fi", "", 0),
    OriginText("https:", "", "evilsona.fi", "", 0),
    OriginText("https:", "", "evil.com", "", 0),
    OriginText("ftp:", "", "sona.fi", "", 0),
    OriginText("https:", "", "", "", 0),
    OriginText("http:", "", "localhost", "3000", 0),
    OriginText("http:", "", "localhost", "8080", 0) }

PrepareContexts ==
  {Undefined, Null, [t |-> "string"]}
  \cup {[t |-> "object", wallet |-> wallet, origin |-> origin] :
          wallet \in {"WalletA", "WalletB", BadAddress}, origin \in ContextOrigins}

SolendRpc ==
  { [lifetime |-> Lifetime, reserve |-> reserve, lendingMarket |-> lendingMarket,
     usdcAtaExists |-> exists[1], cusdcAtaExists |-> exists[2],
     obligationExists |-> exists[3]] :
    reserve \in {Null, AccountBuffer(RESERVE_OFFSETS.MIN_SIZE, 0, 1)},
    lendingMarket \in {Null, AccountBuffer(LENDING_MARKET_OFFSETS.MIN_SIZE - 1, 0, 1),
                       AccountBuffer(LENDING_MARKET_OFFSETS.MIN_SIZE, 0, 3)},
    exists \in {<<TRUE, TRUE, TRUE>>, <<TRUE, FALSE, FALSE>>} }

\* the owner and the address of the derivation that has just returned
ObligationOf(c, r) ==
  IF c.fn = "deriveObligationFromWallet"
  THEN [by |-> c.fn, owner |-> c.walletPubkey, address |-> r.value]
  ELSE [by |-> c.fn, owner |-> c.context.wallet, address |-> r.value.obligationAccount]

Derived ==
  /\ call.fn \in {"deriveObligationFromWallet", "prepareSolendContext"}
  /\ result.status = "ok"

\* what the caller holds when it starts a derivation
Before == IF Derived THEN ObligationOf(call, result) ELSE Null

CallDeriveObligationFromWallet ==
  /\ Idle \/ Derived
  /\ \E walletPubkey \in {"WalletA", "WalletB", BadAddress} :
       /\ call' = [fn |-> "deriveObligationFromWallet", walletPubkey |-> walletPubkey,
                   before |-> Before]
       /\ result' = deriveObligationFromWallet(walletPubkey)

CallPrepareSolendContext ==
  /\ Idle \/ Derived
  /\ \E rpc \in SolendRpc, context \in PrepareContexts, env \in Environments :
       /\ call' = [fn |-> "prepareSolendContext", rpc |-> rpc, context |-> context,
                   env |-> env, before |-> Before]
       /\ result' = prepareSolendContext(rpc, context, env)

ContextTransferParams ==
  {Undefined}
  \cup [recipient : {"RecipientR", BadAddress}, amount : {JSInt(1), Decimal(<<5>>, 1)},
        mint : {Absent, USDC_MINT, USDT_MINT, "UnknownMint111111111111111111111111111111"},
        symbol : {Absent, "", "USDC", "usdc", "SOL", "DOGE"},
        memo : {Undefined}, operation : {"transfer"}]

CallPrepareTransferContext ==
  /\ Idle
  /\ \E context \in PrepareContexts, params \in ContextTransferParams,
        env \in Environments :
       /\ call' = [fn |-> "prepareTransferContext", rpc |-> [lifetime |-> Lifetime],
                   context |-> context, params |-> params, env |-> env]
       /\ result' = prepareTransferContext([lifetime |-> Lifetime], context, params, env)

\* the host hands the context it has prepared, with the same params and
\* context, to the builder
CallBuildTransferPrepared ==
  /\ call.fn = "prepareTransferContext"
  /\ result.status = "ok"
  /\ call' = [fn |-> "buildTransferTransaction", context |-> call.context,
              params |-> call.params, prepared |-> result.value,
              preparedBy |-> call.fn]
  /\ result' = buildTransferTransaction(call.params, call.context, result.value)

\* a route of the swap API's answer
RoutePlanEntry(marketInfos) ==
  [t |-> "object", ammKey |-> "amm", percent |-> 100, marketInfos |-> marketInfos]

RoutePlans ==
  { Undefined, Null, [t |-> "object"], [t |-> "array", items |-> <<>>],
    [t |-> "array", items |-> << RoutePlanEntry(Undefined) >>],
    [t |-> "array", items |-> << RoutePlanEntry([t |-> "array"]),
                                 RoutePlanEntry(Undefined) >>],
    [t |-> "array", items |-> << RoutePlanEntry(Undefined), Null >>],
    [t |-> "array", items |-> << RoutePlanEntry([t |-> "string"]) >>] }

\* what the /order endpoint answered; errorCode 0 stands for none
OrderData(error, errorCode, transaction, routePlan) ==
  [t |-> "object", error |-> error, errorCode |-> errorCode,
   transaction |-> transaction, routePlan |-> routePlan, requestId |-> "request-1"]

OrderAnswers ==
  {Null, [t |-> "string"]}
  \cup {OrderData(FALSE, 0, transaction, [t |-> "array", items |-> << RoutePlanEntry(Undefined) >>]) :
          transaction \in {[t |-> "object"], OpaqueTransaction(63, 1),
                           OpaqueTransaction(64, 1), OpaqueTransaction(MAX_TRANSACTION_SIZE, 3),
                           OpaqueTransaction(MAX_TRANSACTION_SIZE + 1, 3)}}
  \cup {OrderData(FALSE, errorCode, transaction, Undefined) :
          errorCode \in 0..4, transaction \in {Undefined, OpaqueTransaction(0, 0)}}
  \cup {OrderData(error, 0, OpaqueTransaction(500, 3), routePlan) :
          error \in BOOLEAN, routePlan \in RoutePlans}

SwapParams ==
  {Undefined}
  \cup [inputMint : {USDC_MINT, BadAddress}, outputMint : {USDT_MINT, BONK_MINT, BadAddress},
        amount : {JSInt(1), JSNaN}]

CallPrepareJupiterSwapContext ==
  /\ Idle
  /\ \E orderData \in OrderAnswers, context \in PrepareContexts, params \in SwapParams,
        env \in Environments :
       /\ call' = [fn |-> "prepareJupiterSwapContext", rpc |-> [lifetime |-> Lifetime],
                   orderData |-> orderData, context |-> context, params |-> params,
                   env |-> env]
       /\ result' = prepareJupiterSwapContext([lifetime |-> Lifetime], orderData, context,
                                              params, env)

Allowlists ==
  { Undefined, [items |-> <<>>],
    [items |-> << OriginText("https:", "", "sona.fi", "", 0) >>],
    [items |-> << OriginText("https:", "", "app.sona.fi", "", 0),
                  OriginText("", "", "sona.fi", "", 0) >>] }

CallValidateOrigin ==
  /\ Idle
  /\ \E origin \in ContextOrigins, allowlist \in Allowlists, strictMode \in BOOLEAN,
        env \in Environments :
       /\ call' = [fn |-> "validateOrigin", origin |-> origin, allowlist |-> allowlist,
                   strictMode |-> strictMode, env |-> env]
       /\ result' = [status |-> "ok",
                     value |-> validateOrigin(origin, allowlist, strictMode, env)]

NextContext ==
  \/ CallValidateOrigin
  \/ CallDeriveObligationFromWallet
  \/ CallPrepareSolendContext
  \/ CallPrepareTransferContext
  \/ CallBuildTransferPrepared
  \/ CallPrepareJupiterSwapContext
  \/ Return

SpecContext == Init /\ [][NextContext]_vars

(***************************************************************************)
(* The balance query: getTokenBalance called for one symbol, for several   *)
(* (known and unknown, in either case, repeated), and for all tokens,      *)
(* with every answer of the RPC node and every order of the answers.       *)
(***************************************************************************)
BalanceSymbols ==
  {Undefined, [items |-> <<>>]}
  \cup {[items |-> symbols] :
          symbols \in UNION {[1..n -> {"SOL", "USDC", "usdc", "DOGE"}] : n \in 1..3}}

RpcAnswers == [{"SOL", "USDC"} -> {"fail", "none", "some"}]

\* the answer of the RPC node for a token
AnswerFor(answers, token) ==
  IF token.symbol \in DOMAIN answers THEN answers[token.symbol] ELSE "none"

\* getTokenBalance(rpc, { wallet, symbols }) up to its first suspension:
\* every fetch has run to its first await
CallGetTokenBalance ==
  /\ Idle
  /\ \E wallet \in {"WalletA", BadAddress}, symbols \in BalanceSymbols,
        answers \in RpcAnswers :
       /\ call' = [fn |-> "getTokenBalance", wallet |-> wallet, symbols |-> symbols,
                   answers |-> answers,
                   pending |-> {i \in DOMAIN FetchedSymbols(symbols) :
                                  FetchStarts(wallet, FetchedSymbols(symbols)[i])},
                   balances |-> <<>>, order |-> <<>>]
       /\ result' = [status |-> "pending"]

\* the RPC node answers one of the requests in flight; the fetch resumes
\* and stores its balance, or throws into the catch around it
RpcAnswer ==
  /\ call.fn = "getTokenBalance"
  /\ \E i \in call.pending :
       LET symbol == FetchedSymbols(call.symbols)[i]
           token  == getToken(symbol).token
           answer == AnswerFor(call.answers, token)
       IN  call' = [call EXCEPT
                      !.pending = @ \ {i},
                      !.order = Append(@, i),
                      !.balances = IF answer = "fail" THEN @
                                   ELSE AssignBalance(@, symbol,
                                                      TokenBalance(token, answer))]
  /\ UNCHANGED result

\* every fetch has settled: the promise of getTokenBalance settles
Settle ==
  /\ call.fn = "getTokenBalance"
  /\ result.status = "pending"
  /\ call.pending = {}
  /\ UNCHANGED call
  /\ result' = IF SingleQuery(call.symbols)
               THEN IF call.balances = <<>>
                    THEN Throw([message |-> "the fetch failed"])
                    ELSE [status |-> "ok", single |-> TRUE,
                          value |-> call.balances[1].value]
               ELSE [status |-> "ok", single |-> FALSE, value |-> call.balances]

NextBalance ==
  \/ CallGetTokenBalance
  \/ RpcAnswer
  \/ Settle
  \/ (result.status # "pending" /\ Return)

SpecBalance == Init /\ [][NextBalance]_vars

(***************************************************************************)
(* Properties                                                              *)
(***************************************************************************)

\* C1: for every amount buildDepositTransaction or buildWithdrawTransaction
\* accepts, the instruction payload is exactly 9 bytes, byte 0 is the
\* discriminator (14 for deposit, 15 for withdraw) and bytes 1-8, read as a
\* little-endian unsigned 64-bit integer, are exactly params.amount.
C1_PayloadIsAmount ==
  (/\ call.fn \in {"buildDepositTransaction", "buildWithdrawTransaction"}
   /\ result.status = "ok")
  => LET data == result.message.instructions[1].data
         int  == ToBigInt(call.params.amount)
     IN  /\ data.kind = "bytes"
         /\ Len(data.bytes) = 9
         /\ data.bytes[1] = (IF call.fn = "buildDepositTransaction" THEN 14 ELSE 15)
         /\ ~int.neg
         /\ ReadUintLE(SubSeq(data.bytes, 2, 9)) = int.mag

\* C2: the deposit instruction always has 14 account entries and the withdraw
\* instruction 13, the same addresses in the same order with the same roles
\* whatever params and prepared hold; the wallet is the read-only signer at
\* exactly two positions (the 10th and 13th entries of deposit, the 10th and
\* 11th of withdraw), and both entries are still there in the compiled
\* instruction.
C2_AccountListFixed ==
  (/\ call.fn \in {"buildDepositTransaction", "buildWithdrawTransaction"}
   /\ result.status = "ok")
  => LET deposit  == call.fn = "buildDepositTransaction"
         accounts == result.message.instructions[1].accounts
         tx       == result.wireTransaction.tx
         indices  == tx.instructions[1].accountIndices
         wallet   == call.context.wallet
         pre      == call.prepared
         W        == "WRITABLE"
         R        == "READONLY"
         S        == "READONLY_SIGNER"
         roles    == IF deposit
                     THEN <<W, W, W, W, W, W, R, W, W, S, R, R, S, R>>
                     ELSE <<W, W, W, W, W, R, W, W, W, S, S, R, R>>
         addresses ==
           IF deposit
           THEN << pre.userUsdcAta, pre.userCusdcAta, USDC_RESERVE,
                   USDC_LIQUIDITY_SUPPLY, CUSDC_MINT, MAIN_POOL_MARKET,
                   LENDING_MARKET_AUTHORITY, CUSDC_SUPPLY, pre.obligationAccount,
                   wallet, SOLEND_ACCOUNT_1, SOLEND_ACCOUNT_2, wallet,
                   TOKEN_PROGRAM_ID >>
           ELSE << CUSDC_SUPPLY, pre.userCusdcAta, USDC_RESERVE,
                   pre.obligationAccount, MAIN_POOL_MARKET,
                   LENDING_MARKET_AUTHORITY, pre.userUsdcAta, CUSDC_MINT,
                   USDC_LIQUIDITY_SUPPLY, wallet, wallet, TOKEN_PROGRAM_ID,
                   USDC_RESERVE >>
     IN  /\ Len(accounts) = (IF deposit THEN 14 ELSE 13)
         /\ Len(indices) = Len(accounts)
         /\ \A i \in DOMAIN accounts :
              /\ accounts[i].role = roles[i]
              /\ accounts[i].address = addresses[i]
              /\ tx.staticAccounts[indices[i] + 1] = addresses[i]
         /\ {i \in DOMAIN accounts :
               accounts[i].address = wallet /\ accounts[i].role = S}
              = (IF deposit THEN {10, 13} ELSE {10, 11})

\* C2 happens: a deposit was built for a wallet that is also passed as the
\* user's USDC token account, so the wallet is named three times
C2_Witness ==
  /\ call.fn = "buildDepositTransaction"
  /\ result.status = "ok"
  /\ call.prepared.userUsdcAta = call.context.wallet

\* C3: every wireTransaction a builder returns decodes to at most 1232 bytes;
\* a larger transaction makes the builder throw, and nothing is cut to make
\* it fit: the text returned encodes the whole compiled transaction, memo
\* included, and the swap builder returns the text it was given.
C3_WireTransactionFits ==
  /\ (result.status = "ok" /\ call.fn \notin {"safeAmountToRaw", "isSupportedProtocol"})
     => /\ result.wireTransaction.t = "string"
        /\ Base64DecodedLength(result.wireTransaction.b64) <= 1232
  /\ (/\ result.status = "ok"
      /\ call.fn \in {"buildDepositTransaction", "buildWithdrawTransaction",
                      "buildTransferTransaction"})
     => LET tx == result.wireTransaction.tx
        IN  /\ Base64DecodedLength(result.wireTransaction.b64) = SerializedSize(tx)
            /\ (call.fn = "buildTransferTransaction" /\ MemoTruthy(call.params.memo))
               => tx.instructions[Len(tx.instructions)].data
                    = TextData([units |-> call.params.memo.units,
                                width |-> call.params.memo.width])
  /\ (call.fn = "buildJupiterSwapTransaction")
     => /\ result.status = "ok" => result.wireTransaction = call.prepared.transaction
        /\ (/\ call.prepared.transaction # Undefined
            /\ call.prepared.transaction.t = "string"
            /\ Base64DecodedLength(call.prepared.transaction.b64) > 1232)
           => result = Throw("Transaction too large")

\* C3 happens: a transfer whose memo makes the transaction too large ended in
\* the size error
C3_Witness ==
  /\ call.fn = "buildTransferTransaction"
  /\ MemoTruthy(call.params.memo)
  /\ result = Throw("Transaction too large")

\* C4: at every protocol entry point an operation name that is not one of the
\* protocol's operations ends in an unsupported-operation failure and no
\* transaction; it is never replaced by another operation.
C4_UnknownOperationFails ==
  (/\ call.fn = "buildProtocolTransaction"
   /\ call.protocol \in builders
   /\ call.params # Undefined
   /\ ~Falsy(call.params.operation)
   /\ call.params.operation \notin
        (CASE call.protocol = "solend" -> {"deposit", "withdraw"}
           [] call.protocol = "wallet" -> {"transfer"}
           [] call.protocol = "jupiter" -> {"swap"}))
  => /\ result.status = "throw"
     /\ result.error \in {"Unknown wallet operation", "Unknown Jupiter operation"}

\* C5: a builder that writes an amount into an instruction checks it first:
\* a transaction is built only for an amount that is a non-negative integer
\* below 2^64 (Solend) or a finite non-negative number whose raw value is a
\* safe integer (wallet), whether or not the params were validated upstream.
C5_AmountChecked ==
  /\ (/\ call.fn \in {"buildDepositTransaction", "buildWithdrawTransaction"}
      /\ result.status = "ok")
     => LET int == ToBigInt(call.params.amount)
        IN  /\ int.ok
            /\ ~int.neg
            /\ BNCmp(int.mag, BNPow2(64)) < 0
  /\ (call.fn = "buildTransferTransaction" /\ result.status = "ok")
     => LET data == result.wireTransaction.tx.instructions[1].data.bytes
        IN  /\ call.params.amount.t = "number"
            /\ ~DblLess(call.params.amount, JSInt(0))
            /\ BNCmp(ReadUintLE(SubSeq(data, Len(data) - 7, Len(data))),
                     MAX_SAFE_INTEGER) <= 0

\* C6: when a derived account the instruction needs is absent from the prepared
\* context (a token account of a token transfer; a user token account or the
\* obligation account of a deposit or withdraw), the builder fails with the
\* missing-context error -- or with the error of a check that comes before it --
\* and builds no transaction.
C6_MissingContextFails ==
  LET missingContext == "Token accounts must be provided for SPL token transfers"
      earlier == {"SolanaError: invalid address", "BigInt: cannot convert",
                  "Unknown token", "Unknown token mint", "Amount conversion failed"}
      pre == call.prepared
  IN  /\ (/\ call.fn \in {"buildDepositTransaction", "buildWithdrawTransaction"}
          /\ Absent \in {pre.userUsdcAta, pre.userCusdcAta, pre.obligationAccount})
         => /\ result.status = "throw"
            /\ result.error \in {missingContext} \cup earlier
      /\ (/\ call.fn = "buildTransferTransaction"
          /\ ~Falsy(call.params.mint) \/ ~Falsy(call.params.symbol)
          /\ Absent \in {pre.senderTokenAccount, pre.recipientTokenAccount})
         => /\ result.status = "throw"
            /\ result.error \in {missingContext} \cup earlier

\* C7: buildTransferTransaction fails with an unknown-token error and builds no
\* transaction whenever a token identifier it is given, symbol or mint, is not
\* in the registry (the wallet and the recipient being well-formed addresses).
C7_UnknownTokenFails ==
  LET symbols == {TOKENS[i].symbol : i \in DOMAIN TOKENS}
      mints   == {TOKENS[i].mint : i \in DOMAIN TOKENS} \ {NullMint}
      params  == call.params
  IN  (/\ call.fn = "buildTransferTransaction"
       /\ IsAddress(call.context.wallet)
       /\ IsAddress(params.recipient)
       /\ \/ (~Falsy(params.symbol) /\ ToUpperCase(params.symbol) \notin symbols)
          \/ (~Falsy(params.mint) /\ params.mint \notin mints))
      => /\ result.status = "throw"
         /\ result.error \in {"Unknown token", "Unknown token mint"}

\* C8, as amended: a wallet transfer transaction is one transfer instruction,
\* from the system-program template when neither a mint nor a symbol was given
\* and from the token-program template when one was, followed by a memo
\* instruction if and only if a memo was given -- where the empty string counts
\* as not given; the memo instruction is never before the transfer.
C8_TransferThenMemo ==
  (/\ call.fn \in {"buildTransferTransaction", "buildProtocolTransaction"}
   /\ call.protocol = "wallet"
   /\ result.status = "ok")
  => LET tx         == result.wireTransaction.tx
         program(i) == tx.staticAccounts[tx.instructions[i].programAddressIndex + 1]
         data       == tx.instructions[1].data
         token      == ~Falsy(call.params.mint) \/ ~Falsy(call.params.symbol)
         memo       == MemoTruthy(call.params.memo)
     IN  /\ Len(tx.instructions) = (IF memo THEN 2 ELSE 1)
         /\ program(1) = (IF token THEN TOKEN_PROGRAM_ID ELSE SYSTEM_PROGRAM_ID)
         /\ data.kind = "bytes"
         /\ IF token THEN Len(data.bytes) = 9 /\ data.bytes[1] = 3
            ELSE Len(data.bytes) = 12 /\ SubSeq(data.bytes, 1, 4) = <<2, 0, 0, 0>>
         /\ memo => /\ program(2) = MEMO_PROGRAM_ID
                    /\ tx.instructions[2].data.kind = "utf8"

\* C8 happens: a token transfer with a memo was built
C8_Witness ==
  /\ call.fn = "buildTransferTransaction"
  /\ result.status = "ok"
  /\ ~Falsy(call.params.symbol)
  /\ MemoTruthy(call.params.memo)
  /\ Len(result.wireTransaction.tx.instructions) = 2

\* C8, as written: the same with "was supplied" read as "is present in the
\* params", so that an empty memo, symbol or mint counts as supplied.
C8_AsWritten ==
  (/\ call.fn \in {"buildTransferTransaction", "buildProtocolTransaction"}
   /\ call.protocol = "wallet"
   /\ result.status = "ok")
  => LET tx         == result.wireTransaction.tx
         program(i) == tx.staticAccounts[tx.instructions[i].programAddressIndex + 1]
         token      == call.params.mint # Absent \/ call.params.symbol # Absent
         memo       == call.params.memo # Undefined
     IN  /\ Len(tx.instructions) = (IF memo THEN 2 ELSE 1)
         /\ program(1) = (IF token THEN TOKEN_PROGRAM_ID ELSE SYSTEM_PROGRAM_ID)
         /\ memo => program(2) = MEMO_PROGRAM_ID

\* C9: the instructions of a returned transaction are the instructions the
\* builder appended, in the order it appended them, none merged or dropped:
\* each compiled instruction names the program, the accounts and the data of
\* the appended instruction at its position; a Solend transaction has exactly
\* one instruction.
C9_InstructionsAsAppended ==
  (/\ call.fn \in {"buildDepositTransaction", "buildWithdrawTransaction",
                   "buildTransferTransaction"}
   /\ result.status = "ok")
  => LET tx == result.wireTransaction.tx
         found == IF ~Falsy(call.params.mint) \/ ~Falsy(call.params.symbol)
                  THEN ResolveToken(call.params).token
                  ELSE [symbol |-> "SOL", decimals |-> 9]
         raw == safeAmountToRaw(call.params.amount, JSInt(found.decimals)).value
         transfer ==
           IF ~Falsy(call.params.mint) \/ ~Falsy(call.params.symbol)
           THEN buildTokenTransferInstruction(call.prepared.senderTokenAccount,
                                              call.prepared.recipientTokenAccount,
                                              call.context.wallet, raw)
           ELSE buildSolTransferInstruction(call.context.wallet,
                                            call.params.recipient, raw)
         appended ==
           IF call.fn = "buildTransferTransaction"
           THEN IF MemoTruthy(call.params.memo)
                THEN <<transfer, buildMemoInstruction(call.params.memo)>>
                ELSE <<transfer>>
           ELSE result.message.instructions
     IN  /\ call.fn # "buildTransferTransaction" => Len(tx.instructions) = 1
         /\ Len(tx.instructions) = Len(appended)
         /\ \A i \in DOMAIN appended :
              /\ tx.staticAccounts[tx.instructions[i].programAddressIndex + 1]
                   = appended[i].programAddress
              /\ tx.instructions[i].data = appended[i].data
              /\ Len(tx.instructions[i].accountIndices) = Len(appended[i].accounts)
              /\ \A j \in DOMAIN appended[i].accounts :
                   tx.staticAccounts[tx.instructions[i].accountIndices[j] + 1]
                     = appended[i].accounts[j].address

\* C9 happens: a transfer of SOL with a memo was built, two instructions
C9_Witness ==
  /\ call.fn = "buildTransferTransaction"
  /\ result.status = "ok"
  /\ Falsy(call.params.symbol) /\ Falsy(call.params.mint)
  /\ Len(result.wireTransaction.tx.instructions) = 2

\* C10: safeAmountToRaw returns only for a finite, non-negative number that is
\* not above maxSafeAmount(decimals), with decimals an integer in 0..18; for
\* every other input it raises; what it returns is a non-negative safe integer.
C10_SafeAmountToRaw ==
  (call.fn = "safeAmountToRaw")
  => /\ result.status \in {"ok", "throw"}
     /\ result.status = "ok"
        => /\ call.amount.t = "number"
           /\ ~DblLess(call.amount, JSInt(0))
           /\ NumberIsInteger(call.decimals)
           /\ ~call.decimals.neg
           /\ BNCmp(NumberMagnitude(call.decimals), <<18>>) <= 0
           /\ ~DblGreater(call.amount,
                          MAX_SAFE_AMOUNTS[BNToNat(NumberMagnitude(call.decimals)) + 1])
           /\ NumberIsSafeInteger(result.value)
           /\ ~DblLess(result.value, JSInt(0))

\* C10 happens: the largest amount of 9 decimals was converted, to 2^53 - 1
C10_Witness ==
  /\ call.fn = "safeAmountToRaw"
  /\ call.decimals = JSInt(9)
  /\ call.amount = MAX_SAFE_AMOUNTS[10]
  /\ result.status = "ok"
  /\ result.value = JSNumber(FALSE, MAX_SAFE_INTEGER, 0)

\* floor(amount x 10^decimals) of a finite Number amount, computed exactly
ExactFloor(amount, d) ==
  LET p == BNMul(amount.m, BNPow10(d))
  IN  IF amount.e >= 0 THEN BNShl(p, amount.e) ELSE BNShr(p, -amount.e)

\* C11: whenever safeAmountToRaw returns, what it returns is exactly
\* floor(amount x 10^decimals): never rounded up, never below that floor.
C11_ExactFloor ==
  (call.fn = "safeAmountToRaw" /\ result.status = "ok")
  => NumberMagnitude(result.value)
       = ExactFloor(call.amount, BNToNat(NumberMagnitude(call.decimals)))

\* the integer a raw amount denotes, whichever way it was given
RawMagnitude(rawAmount) ==
  IF rawAmount.t = "string" THEN BNFromDigits(rawAmount.text)
  ELSE IF rawAmount.t = "bigint" THEN rawAmount.m
  ELSE NumberMagnitude(rawAmount)

\* C12: round trip: safeAmountToRaw applied to what safeRawToAmount returned
\* for a raw value, with the same decimals, gives the raw value back.
C12_RoundTrip ==
  (call.fn = "safeAmountToRaw" /\ "rawAmount" \in DOMAIN call)
  => /\ result.status = "ok"
     /\ NumberMagnitude(result.value) = RawMagnitude(call.rawAmount)

\* text is the exact decimal rendering of mag / 10^d: an integer part without
\* a needless leading zero, then a '.' and at most d fractional digits only
\* when the fraction is not zero, the last of them not a zero, and the digits
\* read back as mag
RenderingExact(text, mag, d) ==
  LET dots  == {i \in 1..Len(text) : text[i] = "."}
      dot   == IF dots = {} THEN Len(text) + 1 ELSE CHOOSE i \in dots : TRUE
      whole == SubSeq(text, 1, dot - 1)
      frac  == SubSeq(text, dot + 1, Len(text))
      isDigits(cs) == \A i \in 1..Len(cs) : \E j \in 1..10 : DigitChars[j] = cs[i]
  IN  /\ Cardinality(dots) <= 1
      /\ isDigits(whole) /\ isDigits(frac)
      /\ whole # <<>>
      /\ (Len(whole) > 1 => whole[1] # "0")
      /\ (dots # {} => frac # <<>>)
      /\ (frac # <<>> => frac[Len(frac)] # "0")
      /\ Len(frac) <= d
      /\ BNFromDigits(whole \o frac \o [i \in 1..(d - Len(frac)) |-> "0"]) = mag

\* a raw amount that is a non-negative integer: a big integer, a string of
\* decimal digits, or a Number (a safe integer when safeOnly)
RawIsNatural(rawAmount, safeOnly) ==
  \/ rawAmount.t = "bigint" /\ ~rawAmount.neg
  \/ /\ rawAmount.t = "string"
     /\ rawAmount.text # <<>>
     /\ \A i \in 1..Len(rawAmount.text) :
          \E j \in 1..10 : DigitChars[j] = rawAmount.text[i]
  \/ /\ NumberIsInteger(rawAmount)
     /\ ~DblLess(rawAmount, JSInt(0))
     /\ (safeOnly => NumberIsSafeInteger(rawAmount))

\* C13 (amended): for every non-negative raw integer given as a safe-integer
\* Number, a big integer or a string of decimal digits, and decimals in
\* 0..18, safeRawToAmount returns the exact decimal rendering of
\* raw / 10^decimals, trailing zeros of the fraction removed and an all-zero
\* fraction dropped.
C13_ExactRendering ==
  (/\ call.fn = "safeRawToAmount"
   /\ RawIsNatural(call.rawAmount, TRUE)
   /\ NumberIsInteger(call.decimals)
   /\ ~DblLess(call.decimals, JSInt(0))
   /\ ~DblGreater(call.decimals, JSInt(18)))
  => /\ result.status = "ok"
     /\ RenderingExact(result.value, RawMagnitude(call.rawAmount),
                       BNToNat(NumberMagnitude(call.decimals)))

\* C13 happens: 1200 of 3 decimals was rendered "1.2" and 5 of 3 decimals
\* "0.005"
C13_Witness ==
  /\ call.fn = "safeRawToAmount"
  /\ call.decimals = JSInt(3)
  /\ \/ call.rawAmount = JSBigInt(FALSE, BNFromNat(1200))
        /\ result.value = <<"1", ".", "2">>
     \/ call.rawAmount = JSBigInt(FALSE, <<5>>)
        /\ result.value = <<"0", ".", "0", "0", "5">>

\* C13 as written: the same for every non-negative integer Number, safe or
\* not.
C13_AsWritten ==
  (/\ call.fn = "safeRawToAmount"
   /\ RawIsNatural(call.rawAmount, FALSE)
   /\ NumberIsInteger(call.decimals)
   /\ ~DblLess(call.decimals, JSInt(0))
   /\ ~DblGreater(call.decimals, JSInt(18)))
  => /\ result.status = "ok"
     /\ RenderingExact(result.value, RawMagnitude(call.rawAmount),
                       BNToNat(NumberMagnitude(call.decimals)))

\* whether (offset, length) lies inside the bytes of data
WithinBuffer(data, offset, length) ==
  /\ IsBuffer(data)
  /\ offset >= 0
  /\ length >= 0
  /\ offset + length <= Len(data.bytes)

\* C14: in every account parser each field read at (offset, length) happens
\* only after the check offset >= 0, length >= 0, offset + length <=
\* buffer.length has passed, so that no read touches a byte at or beyond
\* buffer.length, also in a buffer that passed the MIN_SIZE check; and a
\* checked read of the reserve and lending-market parsers whose range does
\* not fit the buffer raises an error that names the field, the offset and
\* the buffer length.
C14_ReadsWithinBuffer ==
  /\ (call.fn \in {"parseReserveAccount", "parseLendingMarketAccount", "parseObligation",
                   "safeReadUInt8", "safeSlice"} /\ result.status = "ok")
     => \A i \in DOMAIN result.reads :
          WithinBuffer(call.data, result.reads[i].offset, result.reads[i].length)
  /\ (call.fn \in {"safeReadUInt8", "safeSlice"} /\ IsBuffer(call.data))
     => IF WithinBuffer(call.data, call.offset, call.length)
        THEN /\ result.status = "ok"
             /\ result.reads = <<[fieldName |-> call.fieldName, offset |-> call.offset,
                                  length |-> call.length]>>
        ELSE /\ result.status = "throw"
             /\ {"fieldName", "offset", "bufferLength"} \subseteq DOMAIN result.error
             /\ result.error.fieldName = call.fieldName
             /\ result.error.offset = call.offset
             /\ result.error.bufferLength = Len(call.data.bytes)

\* C14 happens: a buffer of exactly the reserve MIN_SIZE is parsed and its
\* four fields are read, the last of them ending at byte 285
C14_Witness ==
  /\ call.fn = "parseReserveAccount"
  /\ IsBuffer(call.data)
  /\ Len(call.data.bytes) = RESERVE_OFFSETS.MIN_SIZE
  /\ result.status = "ok"
  /\ Len(result.reads) = 4
  /\ result.reads[4].offset + result.reads[4].length
       = RESERVE_OFFSETS.COLLATERAL_SUPPLY_PUBKEY_END

\* the MIN_SIZE of the record kind a parser reads
MinSizeOf(fn) ==
  CASE fn = "parseReserveAccount" -> RESERVE_OFFSETS.MIN_SIZE
    [] fn = "parseLendingMarketAccount" -> LENDING_MARKET_OFFSETS.MIN_SIZE
    [] fn = "parseObligation" -> OBLIGATION_OFFSETS.MIN_SIZE_FOR_DEPOSITS_LEN

\* C15: for every record kind (reserve, lending market, obligation) parsing
\* raises when the buffer is missing, is not a byte buffer or is shorter
\* than the kind's MIN_SIZE, a buffer of MIN_SIZE - 1 bytes included, and no
\* record is made from it.
C15_MalformedRaises ==
  (/\ call.fn \in {"parseReserveAccount", "parseLendingMarketAccount", "parseObligation"}
   /\ (~IsBuffer(call.data) \/ Len(call.data.bytes) < MinSizeOf(call.fn)))
  => result.status = "throw"

\* the 16-bit little-endian count a buffer declares at offset 202
DeclaredCount(data) ==
  data.bytes[OBLIGATION_OFFSETS.DEPOSITS_LEN + 1]
    + 256 * data.bytes[OBLIGATION_OFFSETS.DEPOSITS_LEN + 2]

\* C16: parseObligation returns no entry or as many entries as the buffer
\* declares, never a part of them; when the declared count is above the
\* ceiling of 10, or the buffer is shorter than 204 + count x 112 bytes, it
\* returns no entry and has read no entry, the size test coming before the
\* first entry is read.
C16_AllEntriesOrNone ==
  (call.fn = "parseObligation" /\ result.status = "ok")
  => IF IsBuffer(call.data)
          /\ Len(call.data.bytes) >= OBLIGATION_OFFSETS.MIN_SIZE_FOR_DEPOSITS_LEN
     THEN LET count == DeclaredCount(call.data)
          IN  /\ Len(result.deposits) \in {0, count}
              /\ (\/ count > OBLIGATION_OFFSETS.MAX_DEPOSITS
                  \/ Len(call.data.bytes) < 204 + count * 112)
                 => /\ result.deposits = <<>>
                    /\ \A i \in DOMAIN result.reads :
                         result.reads[i].fieldName = "depositsLen"
     ELSE result.deposits = <<>> /\ result.reads = <<>>

\* C16 happens: a buffer that declares three entries and holds them gives
\* three entries, each read from its own place
C16_Witness ==
  /\ call.fn = "parseObligation"
  /\ IsBuffer(call.data)
  /\ Len(call.data.bytes) >= OBLIGATION_OFFSETS.MIN_SIZE_FOR_DEPOSITS_LEN
  /\ DeclaredCount(call.data) = 3
  /\ Len(result.deposits) = 3
  /\ Len(result.reads) = 4

\* C17: every transaction a builder returns, for Solend, the wallet or
\* Jupiter, has had its instruction count checked: one with no instruction
\* or with more than 64 instructions is rejected and never returned.
C17_InstructionCountChecked ==
  (/\ call.fn \in {"buildDepositTransaction", "buildWithdrawTransaction",
                   "buildTransferTransaction", "buildJupiterSwapTransaction",
                   "buildProtocolTransaction"}
   /\ result.status = "ok")
  => Len(result.wireTransaction.tx.instructions) \in 1..MAX_INSTRUCTIONS

\* C18: validateTransactionSize accepts every transaction whose decoded
\* length is at most 1232 bytes, 1232 itself included, and rejects every
\* longer one, from 1233 on, with an error that holds both the actual size
\* and 1232.
C18_SizeCeiling ==
  (call.fn = "validateTransactionSize" /\ call.wireTransaction.t = "string")
  => IF call.bytes <= 1232
     THEN result.validation.valid
     ELSE /\ ~result.validation.valid
          /\ {call.bytes, 1232} \subseteq RangeOf(result.validation.errorValues)

\* C18 happens: a transaction of 1233 bytes is rejected with both numbers
C18_Witness ==
  /\ call.fn = "validateTransactionSize"
  /\ call.wireTransaction.t = "string"
  /\ call.bytes = 1233
  /\ ~result.validation.valid
  /\ result.validation.errorValues = <<1233, 1232>>

\* C19 as amended: validateInstructionCount rejects a count of zero with an
\* error saying that at least one instruction is needed, accepts every
\* count from 1 to 64, and rejects every count above 64 with an error that
\* holds the count and 64; a rejection's count field is the offending count.
C19_CountLimits ==
  call.fn = "validateInstructionCount"
  => LET instructionCount == call.instructionCount
         validation       == result.validation
     IN  /\ instructionCount = 0
            => /\ ~validation.valid
               /\ validation.count = 0
               /\ validation.error
                    = "Invalid transaction: must contain at least one instruction"
         /\ instructionCount \in 1..64 => validation.valid
         /\ instructionCount > 64
            => /\ ~validation.valid
               /\ validation.count = instructionCount
               /\ validation.errorValues = <<instructionCount, 64>>

\* C19 happens: a count of zero is rejected
C19_Witness ==
  /\ call.fn = "validateInstructionCount"
  /\ call.instructionCount = 0
  /\ ~result.validation.valid
  /\ result.validation.errorValues = <<>>

\* C19 as written: validateInstructionCount rejects a count of zero,
\* accepts every count from 1 to 64 and rejects every count above 64, each
\* rejection with an error that holds the offending count and the limit.
C19_AsWritten ==
  call.fn = "validateInstructionCount"
  => LET instructionCount == call.instructionCount
         validation       == result.validation
     IN  /\ instructionCount \in 1..64 => validation.valid
         /\ (instructionCount = 0 \/ instructionCount > 64)
            => /\ ~validation.valid
               /\ {instructionCount, 64} \subseteq RangeOf(validation.errorValues)

\* C21: obligation-address derivation is deterministic and separates
\* owners: whenever a derivation, made by deriveObligationFromWallet or
\* inside prepareSolendContext, returns while the caller holds the address
\* of an earlier derivation made by either of the two, the two addresses
\* are identical if the two owners are the same and different if the owners
\* differ.
C21_DerivationsAgree ==
  (Derived /\ call.before # Null)
    => LET now == ObligationOf(call, result)
       IN  (now.owner = call.before.owner) <=> (now.address = call.before.address)

C21_Witness ==
  /\ Derived
  /\ call.fn = "prepareSolendContext"
  /\ call.before # Null
  /\ call.before.by = "deriveObligationFromWallet"
  /\ call.before.owner = call.context.wallet
  /\ result.value.obligationAccount = call.before.address

\* C22: no reference to the caller's buffer escapes a parse call: after
\* parseReserveAccount or parseLendingMarketAccount has returned, a write to
\* the source buffer leaves every field of the returned record as it was
\* returned, and a write to a returned field leaves the source buffer as it
\* was passed.
C22_NoReferenceEscapes ==
  ("wrote" \in DOMAIN call)
    => /\ (call.wrote = "source" => result.value = call.returned)
       /\ (call.wrote = "field" => call.data = call.passed)

\* the context carries an origin that is one of the allowed origins
OriginOnAllowList(context, env) ==
  /\ context.t = "object"
  /\ context.origin.t = "string"
  /\ \E i \in DOMAIN getAllowedOrigins(env) : getAllowedOrigins(env)[i] = context.origin

\* C23: every context-preparation function (prepareSolendContext,
\* prepareTransferContext, prepareJupiterSwapContext) validates the request
\* origin first: when the context is missing, has no origin, or its origin is
\* not on the allow-list, the function throws and has sent no RPC request and
\* made no call of the external API.
C23_OriginValidatedFirst ==
  (/\ call.fn \in {"prepareSolendContext", "prepareTransferContext",
                    "prepareJupiterSwapContext"}
   /\ ~OriginOnAllowList(call.context, call.env))
    => (result.status = "throw" /\ result.requests = <<>>)

C23_Witness ==
  /\ call.fn = "prepareJupiterSwapContext"
  /\ call.context.t = "object"
  /\ call.context.origin = OriginText("https:", "", "evil.com", "", 0)
  /\ call.env.ALLOWED_ORIGINS = <<>>
  /\ call.params # Undefined
  /\ call.orderData.t = "object"
  /\ result.status = "throw"
  /\ result.requests = <<>>

\* C24: buildProtocolTransaction invokes the builder registered for the given
\* protocol id and no other builder, and returns or throws what that builder
\* returns or throws; for any id other than 'solend', 'jupiter' or 'wallet'
\* it throws an 'Unsupported protocol' error without invoking any builder;
\* and isSupportedProtocol(id) is true exactly for the ids that
\* getSupportedProtocolIds returns.
C24_DispatchesToRegistered ==
  /\ (call.fn = "buildProtocolTransaction")
       => CASE call.protocol = "solend" ->
                 result = Invoked(<<"buildSolendTransaction">>,
                                  buildSolendTransaction(call.context, call.params,
                                                         call.prepared))
            [] call.protocol = "jupiter" ->
                 result = Invoked(<<"buildJupiterTransaction">>,
                                  buildJupiterTransaction(call.context, call.params,
                                                          call.prepared))
            [] call.protocol = "wallet" ->
                 result = Invoked(<<"buildWalletTransaction">>,
                                  buildWalletTransaction(call.context, call.params,
                                                         call.prepared))
            [] OTHER ->
                 /\ result.status = "throw"
                 /\ result.error = "Unsupported protocol"
                 /\ result.invoked = <<>>
  /\ (call.fn = "isSupportedProtocol")
       => (result.value <=> \E i \in DOMAIN result.ids : result.ids[i] = call.id)

C24_Witness ==
  /\ call.fn = "buildProtocolTransaction"
  /\ call.protocol = "wallet"
  /\ result.status = "ok"
  /\ result.invoked = <<"buildWalletTransaction">>

\* the transfer names no token, or names the native asset by its symbol
NamesNativeAsset(params) ==
  IF ~Falsy(params.symbol)
  THEN getToken(params.symbol).ok /\ getToken(params.symbol).token.isNative
  ELSE Falsy(params.mint)

\* C25: for every transfer params object, including one that names the
\* native asset by the symbol 'SOL', the context prepareTransferContext
\* returns for those params is sufficient for buildTransferTransaction called
\* with the same params: the builder does not fail for missing token
\* accounts, and a native SOL transfer is encoded as a system-program
\* transfer.
C25_PreparedContextSuffices ==
  (call.fn = "buildTransferTransaction" /\ "preparedBy" \in DOMAIN call)
    => /\ ~(/\ result.status = "throw"
            /\ result.error = "Token accounts must be provided for SPL token transfers")
       /\ (NamesNativeAsset(call.params) /\ result.status = "ok")
            => LET tx == result.wireTransaction.tx
               IN  tx.staticAccounts[tx.instructions[1].programAddressIndex + 1]
                     = SYSTEM_PROGRAM_ID

\* C26: the metadata returned with a wallet transfer describes the transfer
\* the instruction encodes: the destination account written into a
\* token-transfer instruction is the associated token account of
\* params.recipient (reported as transfer.to) for the mint of the token whose
\* decimals scaled the amount, transfer.symbol is that token's symbol, and
\* transfer.mint, when it is set, is that token's mint, also when both a
\* symbol and a mint are supplied.
C26_MetadataDescribesTransfer ==
  (/\ call.fn = "buildTransferTransaction"
   /\ "preparedBy" \in DOMAIN call
   /\ result.status = "ok"
   /\ ~NamesNativeAsset(call.params))
    => LET tx    == result.wireTransaction.tx
           token == ResolveToken(call.params).token
       IN  /\ result.transfer.to = call.params.recipient
           /\ tx.staticAccounts[tx.instructions[1].accountIndices[2] + 1]
                 = getAssociatedTokenAddress(token.mint, call.params.recipient)
           /\ result.transfer.symbol = token.symbol
           /\ result.transfer.mint \in {token.mint, Absent}

\* C27: in non-strict mode validateOrigin accepts an origin only if its
\* hostname equals an allow-listed hostname or is a subdomain of one (ends
\* with '.' followed by that hostname); a hostname that merely ends with the
\* same characters as an allow-listed hostname, without a dot boundary, is
\* rejected.
C27_SubdomainBoundary ==
  (call.fn = "validateOrigin" /\ ~call.strictMode /\ result.value.valid)
    => LET allowedOrigins == IF call.allowlist = Undefined
                             THEN getAllowedOrigins(call.env)
                             ELSE call.allowlist.items
       IN  \E i \in DOMAIN allowedOrigins :
             /\ allowedOrigins[i].scheme # ""
             /\ \/ call.origin.host = allowedOrigins[i].host
                \/ EndsWith(call.origin.host, <<".">> \o allowedOrigins[i].host)

\* the messages of the errors prepareJupiterSwapContext raises on an answer
\* of the swap API by its own checks
OrderValidationErrors ==
  { "Jupiter API returned invalid response: expected object", "Jupiter order error",
    "Insufficient funds for swap", "Top up SOL for gas fees",
    "Minimum swap amount not met for gasless transaction",
    "No transaction returned from Jupiter order",
    "Jupiter API returned invalid transaction: expected non-empty base64 string",
    "Jupiter API returned invalid base64 transaction: Decoded transaction is empty",
    "Transaction too small", "Transaction too large",
    "Jupiter API returned invalid routePlan: expected array",
    "Jupiter API route is invalid: expected object",
    "Jupiter API route marketInfos must be an array" }

\* C28: prepareJupiterSwapContext treats routePlan as optional: once the swap
\* API has answered, a response that passes the response and transaction
\* checks and contains no routePlan yields a prepared context just as one
\* with a well-formed routePlan does, and every failure raised on a response
\* is one of the function's explicit validation errors.
C28_RoutePlanOptional ==
  (/\ call.fn = "prepareJupiterSwapContext"
   /\ \E i \in DOMAIN result.requests : result.requests[i].method = "fetch")
    => /\ result.status = "throw" => result.error.message \in OrderValidationErrors
       /\ (/\ call.orderData.t = "object"
           /\ ~call.orderData.error
           /\ OrderTransactionError(call.orderData) = ""
           /\ RoutePlanFalsy(call.orderData.routePlan))
            => result.status = "ok"

\* the sum of the depositedAmount of the entries, as a decimal string
SumOfDeposits(deposits) ==
  LET RECURSIVE Sum(_, _)
      Sum(i, acc) ==
        IF i > Len(deposits) THEN acc
        ELSE Sum(i + 1, BNAdd(acc, BNFromDigits(deposits[i].depositedAmount)))
  IN  BigIntToString(Sum(1, <<>>))

\* C29, as amended: whenever parseObligation returns entries, totalDeposited
\* equals the depositedAmount of the first returned entry, and it is '0'
\* when no entry is returned; getPosition reports that same value as the
\* position's deposited amount.
C29_FirstDeposit ==
  /\ (call.fn = "parseObligation" /\ result.status = "ok")
       => IF result.deposits = <<>> THEN result.totalDeposited = <<"0">>
          ELSE result.totalDeposited = result.deposits[1].depositedAmount
  /\ (call.fn = "getPosition" /\ result.status = "ok" /\ result.exists)
       => /\ result.deposits = parseObligation(call.account).deposits
          /\ IF result.deposits = <<>> THEN result.deposited = <<"0">>
             ELSE result.deposited = result.deposits[1].depositedAmount

\* C29 happens: a position of three entries, whose first amount is not the
\* sum of the three, is reported with the first amount
C29_Witness ==
  /\ call.fn = "getPosition"
  /\ result.status = "ok"
  /\ result.exists
  /\ Len(result.deposits) = 3
  /\ result.deposited = result.deposits[1].depositedAmount
  /\ result.deposited # SumOfDeposits(result.deposits)

\* C29, as written: whenever parseObligation returns entries, totalDeposited
\* equals the sum of the depositedAmount of all returned entries, and it is
\* '0' exactly when no entry is returned; getPosition reports that same total
\* as the position's deposited amount.
C29_AsWritten ==
  /\ (call.fn = "parseObligation" /\ result.status = "ok")
       => /\ result.deposits # <<>>
               => result.totalDeposited = SumOfDeposits(result.deposits)
          /\ (result.totalDeposited = <<"0">>) <=> (result.deposits = <<>>)
  /\ (call.fn = "getPosition" /\ result.status = "ok" /\ result.exists)
       => result.deposited = SumOfDeposits(result.deposits)

\* the fetch of a symbol succeeds: the symbol and the wallet are accepted and
\* the RPC node answers the request
FetchSucceeds(wallet, symbol, answers) ==
  /\ FetchStarts(wallet, symbol)
  /\ AnswerFor(answers, getToken(symbol).token) # "fail"

\* the object holds exactly one entry for each requested symbol whose fetch
\* succeeds, that symbol's balance, and no other entry
OneEntryPerFetched(balances, wallet, requested, answers) ==
  /\ \A i \in DOMAIN requested :
       FetchSucceeds(wallet, requested[i], answers)
         => /\ Cardinality({j \in DOMAIN balances : balances[j].key = requested[i]}) = 1
            /\ \A j \in DOMAIN balances :
                 balances[j].key = requested[i]
                   => balances[j].value
                        = TokenBalance(getToken(requested[i]).token,
                                       AnswerFor(answers, getToken(requested[i]).token))
  /\ \A j \in DOMAIN balances :
       \E i \in DOMAIN requested :
         requested[i] = balances[j].key /\ FetchSucceeds(wallet, requested[i], answers)

\* C30, as amended: a balance query for two or more symbols returns exactly
\* one entry for each requested symbol whose fetch succeeded and none for a
\* symbol whose fetch failed, whatever the order in which the concurrent
\* fetches complete; the failure of one symbol's fetch neither fails the
\* query nor changes another symbol's entry; a symbol requested alone is
\* returned as its bare entry, the same entry it has when it is requested
\* together with others, and the failure of its fetch fails the query.
C30_OneEntryPerSymbol ==
  (call.fn = "getTokenBalance" /\ result.status # "pending")
    => IF SingleQuery(call.symbols)
       THEN IF FetchSucceeds(call.wallet, call.symbols.items[1], call.answers)
            THEN /\ result.status = "ok"
                 /\ OneEntryPerFetched(<<[key |-> call.symbols.items[1],
                                          value |-> result.value]>>,
                                       call.wallet, call.symbols.items, call.answers)
            ELSE result.status = "throw"
       ELSE /\ result.status = "ok"
            /\ OneEntryPerFetched(result.value, call.wallet,
                                  FetchedSymbols(call.symbols), call.answers)

\* C30 happens: of three symbols fetched together the last was answered
\* first, one fetch failed, and the two others are returned
C30_Witness ==
  /\ call.fn = "getTokenBalance"
  /\ result.status = "ok"
  /\ ~result.single
  /\ Len(FetchedSymbols(call.symbols)) = 3
  /\ call.order = <<3, 2, 1>>
  /\ Cardinality(RangeOf(FetchedSymbols(call.symbols))) = 3
  /\ \E i \in 1..3 : ~FetchSucceeds(call.wallet, FetchedSymbols(call.symbols)[i],
                                     call.answers)
  /\ Len(result.value) = 2

\* C30, as written: a multi-symbol balance query returns exactly one entry
\* for each requested symbol whose fetch succeeded and none for a symbol
\* whose fetch failed, whatever the order in which the concurrent fetches
\* complete; the failure of one symbol's fetch neither fails the query nor
\* changes another symbol's entry; and a requested symbol is handled the same
\* way whether it is requested alone or together with others.
C30_AsWritten ==
  (call.fn = "getTokenBalance" /\ result.status # "pending")
    => /\ result.status = "ok"
       /\ ~result.single
       /\ OneEntryPerFetched(result.value, call.wallet,
                             FetchedSymbols(call.symbols), call.answers)

====
